---------------------------- MODULE Spec2Model ----------------------------
(***************************************************************************)
(* A model of the emul8 CHIP-8 interpreter: the Processor of               *)
(* src/chip8/cpu.go (the method-based variant, lines 232-522), the         *)
(* operation table of src/chip8/opcode.go, and the memory interface        *)
(* (Reset, Load, Write, Read, SetKey).                                     *)
(*                                                                         *)
(* The processor is one record, cpu (src/emulator.go:47), whose fields are *)
(* the fields of the Go struct.  Every Go function is an operator from a   *)
(* processor record to a processor record; Go's sequential assignments are *)
(* LET chains, so an early write (to VF, say) is visible to the reads      *)
(* that follow it, exactly as in the source.  Unsigned arithmetic keeps    *)
(* its width (% 256 for uint8, % 65536 for uint16).  A Go panic (explicit, *)
(* or an index out of range on memory[4096]) is recorded in the field      *)
(* `panic`, keeps the writes made before it, and ends the run.             *)
(***************************************************************************)
EXTENDS Integers, Sequences, FiniteSets

(***************************************************************************)
(* Program constants.                                                      *)
(***************************************************************************)
RegisterCount == 16
KeyCount == 16
FontStartAddress == 80
ProgramStartAddress == 512
CarryFlag == 15
Width == 64
Height == 32
Area == Width * Height
MemorySize == 4096
StackSize == 16
\* The exclusive upper limit of Write and Read (loc+i < 0xFFF).
TransferLimit == 4095
\* time.Second / 60, in nanoseconds.
TimerRate == 16666666
\* The bits of the status mask returned by Step.
Delay == 1
Sound == 2
Redraw == 4

U8 == 256
U16 == 65536

fontSet ==
  << 240, 144, 144, 144, 240,   32,  96,  32,  32, 112,
     240,  16, 240, 128, 240,  240,  16, 240,  16, 240,
     144, 144, 240,  16,  16,  240, 128, 240,  16, 240,
     240, 128, 240, 144, 240,  240,  16,  32,  64,  64,
     240, 144, 240, 144, 240,  240, 144, 240,  16, 240,
     240, 144, 240, 144, 144,  224, 144, 224, 144, 224,
     240, 128, 128, 128, 240,  224, 144, 144, 144, 224,
     240, 128, 240, 128, 240,  240, 128, 240, 128, 128 >>

(***************************************************************************)
(* Bit operations on naturals, bit by bit.                                 *)
(***************************************************************************)
Pow2Table ==
  << 1, 2, 4, 8, 16, 32, 64, 128, 256, 512, 1024, 2048, 4096, 8192, 16384,
     32768, 65536 >>

Pow2(k) == Pow2Table[k + 1]

Bit(a, k) == (a \div Pow2(k)) % 2

RECURSIVE BitAnd(_, _)
BitAnd(a, b) ==
  IF a = 0 \/ b = 0 THEN 0
  ELSE (a % 2) * (b % 2) + 2 * BitAnd(a \div 2, b \div 2)

RECURSIVE BitOr(_, _)
BitOr(a, b) ==
  IF a = 0 THEN b ELSE IF b = 0 THEN a
  ELSE (IF a % 2 = 1 \/ b % 2 = 1 THEN 1 ELSE 0) + 2 * BitOr(a \div 2, b \div 2)

RECURSIVE BitXor(_, _)
BitXor(a, b) ==
  IF a = 0 THEN b ELSE IF b = 0 THEN a
  ELSE (((a % 2) + (b % 2)) % 2) + 2 * BitXor(a \div 2, b \div 2)

\* (a & mask) >> lo for the mask of `width` one-bits starting at bit lo.
BitField(a, lo, width) == (a \div Pow2(lo)) % Pow2(width)

\* Go's >> and << on an unsigned value of the given width.
ShiftRight(a, k) == a \div Pow2(k)
ShiftLeft(a, k, width) == (a * Pow2(k)) % width

(***************************************************************************)
(* The state.                                                              *)
(***************************************************************************)
VARIABLES
  cpu,      \* the Processor (src/emulator.go:47)
  info,     \* the status mask returned by the last Step
  image,    \* the byte sequence handed to the last Load
  out,      \* the last logged call of Read, Write or SetKey: its name, its
            \* arguments, the count it returned and the buffer it used
  loaded,   \* whether Emulator.Load has run
  steps,    \* the number of Steps since the last Load
  hist,     \* <<the processor before the last Step>>, where a run keeps it
  trace,    \* <<pc, opcode>> of every Step since the last Load, oldest first
  timed,    \* per timer, where a run keeps it: the value an instruction last
            \* wrote to it and the timer intervals of wall-clock time since
  scan,     \* where the execution thread is inside a key-wait Step whose
            \* flag loads are taken one at a time: the next flag and the
            \* opcode being executed
  emu       \* the Emulator and the locals of its Run: the paused, next and
            \* running flags, the beeping flag of its Beep, the back-buffer,
            \* where the loop of Run stands, and, where a run keeps them,
            \* the Steps and step requests counted since the last pause

vars == <<cpu, info, image, out, loaded, steps, hist, trace, timed, scan, emu>>

ZeroDisplay == [c \in 0..(Area - 1) |-> 0]

\* The zero value of the Go struct.  sinceTimerUpdate stands for
\* time.Since(p.lastTimerUpdate), saturated at TimerRate: the zero
\* time.Time lies further back than any TimerRate.
ZeroProcessor ==
  [ memory |-> [a \in 0..(MemorySize - 1) |-> 0],
    v |-> [r \in 0..(RegisterCount - 1) |-> 0],
    keyState |-> [k \in 0..(KeyCount - 1) |-> FALSE],
    display |-> ZeroDisplay,
    stack |-> [s \in 0..(StackSize - 1) |-> 0],
    sp |-> 0,
    pc |-> 0,
    i |-> 0,
    delay |-> 0,
    sound |-> 0,
    sinceTimerUpdate |-> TimerRate,
    panic |-> "" ]

Panic(p, msg) == [p EXCEPT !.panic = msg]

(***************************************************************************)
(* Write and Read: the loop `for ; loc+i < 0xFFF && int(i) < len; i++`     *)
(* with loc and i of type uint16.  LoopExit is the first i at which the    *)
(* loop condition is false.                                                *)
(***************************************************************************)
\* The loop condition with the limit address itself taken as writable.
LoopCondition_Inclusive(loc, len, k) ==
  ((loc + k) % U16) <= TransferLimit /\ k < len

LoopCondition(loc, len, k) == ((loc + k) % U16) < TransferLimit /\ k < len

LoopExit(loc, len) ==
  LET stop == {k \in 0..len : ~LoopCondition(loc, len, k)}
  IN  CHOOSE m \in stop : \A k \in stop : m <= k

\* The loop body p.memory[loc+i] = data[i] for i in lo..hi-1, in order (the
\* range is halved so that a long transfer stays a shallow recursion).  An
\* index past the end of memory is a run-time panic.
RECURSIVE WriteLoop(_, _, _, _, _)
WriteLoop(p, loc, data, lo, hi) ==
  IF p.panic # "" \/ lo >= hi THEN p
  ELSE IF hi = lo + 1
       THEN (IF (loc + lo) % U16 >= MemorySize THEN Panic(p, "index out of range")
             ELSE [p EXCEPT !.memory[(loc + lo) % U16] = data[lo + 1]])
  ELSE LET mid == (lo + hi) \div 2
       IN  WriteLoop(WriteLoop(p, loc, data, lo, mid), loc, data, mid, hi)

\* Returns <<processor, count>>.
Write(p, loc, data) ==
  LET n == LoopExit(loc, Len(data))
  IN  << WriteLoop(p, loc, data, 0, n), n >>

\* Returns <<count, data>>: the caller's buffer of length len, initially
\* buf, with its first count bytes overwritten.
Read(p, loc, buf) ==
  LET n == LoopExit(loc, Len(buf))
  IN  << n, [k \in 1..Len(buf) |->
               IF k <= n THEN p.memory[(loc + k - 1) % U16] ELSE buf[k]] >>

Reset(p) ==
  LET w == Write(ZeroProcessor, FontStartAddress, fontSet)
  IN  IF w[2] < Len(fontSet)
      THEN Panic(w[1], "insufficient memory to write font set")
      ELSE w[1]

\* Load that takes whatever part of the image fits.
Load_Unchecked(p, b) ==
  LET w == Write(p, ProgramStartAddress, b)
  IN  [w[1] EXCEPT !.pc = ProgramStartAddress]

Load(p, b) ==
  LET w == Write(p, ProgramStartAddress, b)
  IN  IF w[2] < Len(b)
      THEN Panic(w[1], "insufficient memory")
      ELSE [w[1] EXCEPT !.pc = ProgramStartAddress]

\* SetKey that keeps three bits of the key code.
SetKey_LowThree(p, key, value) ==
  [p EXCEPT !.keyState[BitAnd(key, 7)] = value]

SetKey(p, key, value) ==
  [p EXCEPT !.keyState[BitAnd(key, 15)] = value]

(***************************************************************************)
(* Register and memory access.  memory is a [4096]byte: an index above     *)
(* 4095 is a run-time panic.  After a panic nothing more is executed.      *)
(***************************************************************************)
SetV(p, r, b) == IF p.panic # "" THEN p ELSE [p EXCEPT !.v[r] = b]

IndexPanic == "index out of range"

StoreByte(p, addr, b) ==
  IF p.panic # "" THEN p
  ELSE IF addr >= MemorySize THEN Panic(p, IndexPanic)
  ELSE [p EXCEPT !.memory[addr] = b]

\* v[r] = memory[addr]
LoadByte(p, r, addr) ==
  IF p.panic # "" THEN p
  ELSE IF addr >= MemorySize THEN Panic(p, IndexPanic)
  ELSE [p EXCEPT !.v[r] = p.memory[addr]]

(***************************************************************************)
(* Opcode fields (src/chip8/opcode.go:281-303).                            *)
(***************************************************************************)
OpKind(op) == BitField(op, 12, 4)
OpX(op) == BitField(op, 8, 4)
OpY(op) == BitField(op, 4, 4)
OpN(op) == BitField(op, 0, 4)
OpNN(op) == BitField(op, 0, 8)
OpNNN(op) == BitField(op, 0, 12)

(***************************************************************************)
(* The operations (src/chip8/opcode.go:24-277).                            *)
(***************************************************************************)
\* clearScreen that reports the redraw and leaves the cells as they are.
clearScreen_KeepsCells(p, inf) == <<p, BitOr(inf, Redraw)>>

clearScreen(p, inf) ==
  << [p EXCEPT !.display = ZeroDisplay], BitOr(inf, Redraw) >>

\* callSubroutine that lets a call through at depth 16.
callSubroutine_OneMore(p, nnn) ==
  IF p.sp > StackSize THEN Panic(p, "stack overflow")
  ELSE [p EXCEPT !.stack[p.sp] = p.pc, !.sp = p.sp + 1, !.pc = nnn]

callSubroutine(p, nnn) ==
  IF p.sp >= StackSize THEN Panic(p, "stack overflow")
  ELSE [p EXCEPT !.stack[p.sp] = p.pc, !.sp = p.sp + 1, !.pc = nnn]

\* returnFromSubroutine that resumes at the oldest saved address.
returnFromSubroutine_Oldest(p) ==
  IF p.sp = 0 THEN Panic(p, "stack underflow")
  ELSE [p EXCEPT !.sp = p.sp - 1, !.pc = p.stack[0]]

returnFromSubroutine(p) ==
  IF p.sp = 0 THEN Panic(p, "stack underflow")
  ELSE [p EXCEPT !.sp = p.sp - 1, !.pc = p.stack[p.sp - 1]]

jumpToLocation(p, nnn) == [p EXCEPT !.pc = nnn]

\* jumpWithOffset that wraps the sum into the 12-bit address space.
jumpWithOffset_Wrap(p, nnn) == [p EXCEPT !.pc = (nnn + p.v[0]) % MemorySize]

jumpWithOffset(p, nnn) == [p EXCEPT !.pc = (nnn + p.v[0]) % U16]

SkipNext(p) == [p EXCEPT !.pc = (p.pc + 2) % U16]

stepIfXEqualsNN(p, x, nn) == IF p.v[x] = nn THEN SkipNext(p) ELSE p

stepIfXNotEqualsNN(p, x, nn) == IF p.v[x] # nn THEN SkipNext(p) ELSE p

stepIfXEqualsY(p, x, y) == IF p.v[x] = p.v[y] THEN SkipNext(p) ELSE p

\* stepIfXNotEqualsY that skips on equality.
stepIfXNotEqualsY_Equal(p, x, y) == IF p.v[x] = p.v[y] THEN SkipNext(p) ELSE p

stepIfXNotEqualsY(p, x, y) == IF p.v[x] # p.v[y] THEN SkipNext(p) ELSE p

setXToNN(p, x, nn) == SetV(p, x, nn)

addNNToX(p, x, nn) == SetV(p, x, (p.v[x] + nn) % U8)

setXToY(p, x, y) == SetV(p, x, p.v[y])

\* orXY without the reset of the carry register.
orXY_KeepsFlag(p, x, y) == SetV(p, x, BitOr(p.v[x], p.v[y]))

orXY(p, x, y) ==
  LET p1 == SetV(p, CarryFlag, 0)
  IN  SetV(p1, x, BitOr(p1.v[x], p1.v[y]))

andXY(p, x, y) ==
  LET p1 == SetV(p, CarryFlag, 0)
  IN  SetV(p1, x, BitAnd(p1.v[x], p1.v[y]))

xorXY(p, x, y) ==
  LET p1 == SetV(p, CarryFlag, 0)
  IN  SetV(p1, x, BitXor(p1.v[x], p1.v[y]))

\* addXY with the carry test off by one (sum >= 255).
addXY_CarryOffByOne(p, x, y) ==
  LET sum == p.v[x] + p.v[y]
      p1 == SetV(p, CarryFlag, 0)
      p2 == IF sum >= 255 THEN SetV(p1, CarryFlag, 1) ELSE p1
  IN  SetV(p2, x, BitAnd(sum, 255) % U8)

addXY(p, x, y) ==
  LET sum == p.v[x] + p.v[y]
      p1 == SetV(p, CarryFlag, 0)
      p2 == IF sum > 255 THEN SetV(p1, CarryFlag, 1) ELSE p1
  IN  SetV(p2, x, BitAnd(sum, 255) % U8)

\* subtractYFromX with a strict comparison (borrow reported on equality).
subtractYFromX_Strict(p, x, y) ==
  LET p1 == SetV(p, CarryFlag, 0)
      p2 == IF p1.v[x] > p1.v[y] THEN SetV(p1, CarryFlag, 1) ELSE p1
  IN  SetV(p2, x, (p2.v[x] - p2.v[y]) % U8)

subtractYFromX(p, x, y) ==
  LET p1 == SetV(p, CarryFlag, 0)
      p2 == IF p1.v[x] >= p1.v[y] THEN SetV(p1, CarryFlag, 1) ELSE p1
  IN  SetV(p2, x, (p2.v[x] - p2.v[y]) % U8)

\* subtractXFromY computing Vx - Vy instead of Vy - Vx.
subtractXFromY_Swapped(p, x, y) ==
  LET p1 == SetV(p, CarryFlag, 0)
      p2 == IF p1.v[y] >= p1.v[x] THEN SetV(p1, CarryFlag, 1) ELSE p1
  IN  SetV(p2, x, (p2.v[x] - p2.v[y]) % U8)

subtractXFromY(p, x, y) ==
  LET p1 == SetV(p, CarryFlag, 0)
      p2 == IF p1.v[y] >= p1.v[x] THEN SetV(p1, CarryFlag, 1) ELSE p1
  IN  SetV(p2, x, (p2.v[y] - p2.v[x]) % U8)

shiftRightX(p, x) ==
  LET p1 == SetV(p, CarryFlag, BitAnd(p.v[x], 1))
  IN  SetV(p1, x, ShiftRight(p1.v[x], 1))

\* shiftLeftX that takes the flag from the shifted value.
shiftLeftX_FlagAfter(p, x) ==
  LET p1 == SetV(p, x, ShiftLeft(p.v[x], 1, U8))
  IN  SetV(p1, CarryFlag, ShiftRight(BitAnd(p1.v[x], 128), 7))

shiftLeftX(p, x) ==
  LET p1 == SetV(p, CarryFlag, ShiftRight(BitAnd(p.v[x], 128), 7))
  IN  SetV(p1, x, ShiftLeft(p1.v[x], 1, U8))

setIToNNN(p, nnn) == [p EXCEPT !.i = nnn]

\* randomByte is the outcome of rand.Uint32N(256).
\* setXToRandom that stores the random byte as drawn.
setXToRandom_Unmasked(p, x, nn, randomByte) == SetV(p, x, randomByte)

setXToRandom(p, x, nn, randomByte) == SetV(p, x, BitAnd(randomByte, nn))

\* stepIfKeyDown that keeps three bits of Vx.
stepIfKeyDown_LowThree(p, x) ==
  LET key == BitAnd(p.v[x], 7)
  IN  IF p.keyState[key] THEN SkipNext(p) ELSE p

stepIfKeyDown(p, x) ==
  LET key == BitAnd(p.v[x], 15)
  IN  IF p.keyState[key] THEN SkipNext(p) ELSE p

stepIfKeyUp(p, x) ==
  LET key == BitAnd(p.v[x], 15)
  IN  IF ~p.keyState[key] THEN SkipNext(p) ELSE p

setXToDelay(p, x) == SetV(p, x, p.delay)

\* The scan of the key flags from index k on: the first flag found set,
\* or KeyCount when the loop runs out.
RECURSIVE ScanKeys(_, _)
ScanKeys(p, k) ==
  IF k >= KeyCount THEN KeyCount
  ELSE IF p.keyState[k] THEN k
  ELSE ScanKeys(p, k + 1)

\* pauseUntilKeyPressed whose loop has no break: the last set key wins.
pauseUntilKeyPressed_NoBreak(p, x) ==
  LET set == {k \in 0..(KeyCount - 1) : p.keyState[k]}
  IN  IF set # {} THEN SetV(p, x, CHOOSE k \in set : \A j \in set : j <= k)
      ELSE [p EXCEPT !.pc = (p.pc - 2) % U16]

pauseUntilKeyPressed(p, x) ==
  LET k == ScanKeys(p, 0)
      keyPressed == k < KeyCount
  IN  IF keyPressed THEN SetV(p, x, k)
      ELSE [p EXCEPT !.pc = (p.pc - 2) % U16]

\* One iteration of the loop of pauseUntilKeyPressed, with a loop that ends
\* without a key starting over in place of the replay.
KeyScanIteration_Spin(p, x, i) ==
  IF p.keyState[i] THEN << SetV(p, x, i), KeyCount >>
  ELSE IF i + 1 < KeyCount THEN << p, i + 1 >>
  ELSE << p, 0 >>

\* One iteration of the loop of pauseUntilKeyPressed, at index i: the atomic
\* load of flag i and what follows it up to the next load.  Returns
\* <<processor, next index>>; the index KeyCount says that the function
\* has returned.
KeyScanIteration(p, x, i) ==
  IF p.keyState[i] THEN << SetV(p, x, i), KeyCount >>
  ELSE IF i + 1 < KeyCount THEN << p, i + 1 >>
  ELSE << [p EXCEPT !.pc = (p.pc - 2) % U16], KeyCount >>

setDelayToX(p, x) == [p EXCEPT !.delay = p.v[x]]

setSoundToX(p, x) == [p EXCEPT !.sound = p.v[x]]

setIToX(p, x) == [p EXCEPT !.i = (p.i + p.v[x]) % U16]

\* setIToSymbol that takes all of Vx as the digit.
setIToSymbol_Unmasked(p, x) ==
  [p EXCEPT !.i = (FontStartAddress + p.v[x] * 5) % U16]

setIToSymbol(p, x) ==
  LET digit == BitAnd(p.v[x], 15)
  IN  [p EXCEPT !.i = (FontStartAddress + digit * 5) % U16]

\* One round of the double-dabble loop, rounds k..7.
RECURSIVE Dabble(_, _, _)
Dabble(bcd, val, k) ==
  IF k >= 8 THEN bcd
  ELSE LET b1 == IF BitAnd(bcd, 15) >= 5 THEN bcd + 3 ELSE bcd
           b2 == IF BitAnd(b1, 240) >= 80 THEN b1 + 48 ELSE b1
           b3 == IF BitAnd(b2, 3840) >= 1280 THEN b2 + 768 ELSE b2
       IN  Dabble(BitOr(b3 * 2, BitAnd(ShiftRight(val, 7 - k), 1)), val, k + 1)

\* binaryCodedDecimal with the three digits stored lowest first.
binaryCodedDecimal_OnesFirst(p, x) ==
  LET bcd == Dabble(0, p.v[x], 0)
      p1 == StoreByte(p, p.i, BitAnd(bcd, 15) % U8)
      p2 == StoreByte(p1, (p.i + 1) % U16, BitAnd(ShiftRight(bcd, 4), 15) % U8)
  IN  StoreByte(p2, (p.i + 2) % U16, BitAnd(ShiftRight(bcd, 8), 15) % U8)

binaryCodedDecimal(p, x) ==
  LET bcd == Dabble(0, p.v[x], 0)
      p1 == StoreByte(p, p.i, BitAnd(ShiftRight(bcd, 8), 15) % U8)
      p2 == StoreByte(p1, (p.i + 1) % U16, BitAnd(ShiftRight(bcd, 4), 15) % U8)
  IN  StoreByte(p2, (p.i + 2) % U16, BitAnd(bcd, 15) % U8)

RECURSIVE StoreRegisters(_, _, _)
StoreRegisters(p, x, k) ==
  IF p.panic # "" \/ k > x THEN p
  ELSE StoreRegisters(StoreByte(p, (p.i + k) % U16, p.v[k]), x, k + 1)

\* setRegistersToMemory that leaves I past the last byte stored.
setRegistersToMemory_AdvanceI(p, x) ==
  LET q == StoreRegisters(p, x, 0)
  IN  IF q.panic # "" THEN q ELSE [q EXCEPT !.i = (q.i + x + 1) % U16]

setRegistersToMemory(p, x) == StoreRegisters(p, x, 0)

RECURSIVE LoadRegisters(_, _, _)
LoadRegisters(p, x, k) ==
  IF p.panic # "" \/ k > x THEN p
  ELSE LoadRegisters(LoadByte(p, k, (p.i + k) % U16), x, k + 1)

setMemoryToRegisters(p, x) == LoadRegisters(p, x, 0)

(***************************************************************************)
(* Processor.DrawSprite (src/chip8/cpu.go:432-462).                        *)
(***************************************************************************)
\* The inner loop with `display[index] = 1` in place of `display[index] ^= 1`.
RECURSIVE DrawCols_Set(_, _, _, _, _, _)
DrawCols_Set(p, startX, startY, sprite, row, col) ==
  IF p.panic # "" \/ col >= 8 \/ startX + col >= Width THEN p
  ELSE IF BitAnd(sprite, ShiftRight(128, col)) # 0
       THEN LET index == (startX + col) + ((startY + row) * Width)
                p1 == IF p.display[index] = 1 THEN SetV(p, CarryFlag, 1) ELSE p
                p2 == [p1 EXCEPT !.display[index] = 1]
            IN  DrawCols_Set(p2, startX, startY, sprite, row, col + 1)
       ELSE DrawCols_Set(p, startX, startY, sprite, row, col + 1)

\* The inner loop with `display[index] += 1` in place of the XOR.
RECURSIVE DrawCols_Add(_, _, _, _, _, _)
DrawCols_Add(p, startX, startY, sprite, row, col) ==
  IF p.panic # "" \/ col >= 8 \/ startX + col >= Width THEN p
  ELSE IF BitAnd(sprite, ShiftRight(128, col)) # 0
       THEN LET index == (startX + col) + ((startY + row) * Width)
                p1 == IF p.display[index] = 1 THEN SetV(p, CarryFlag, 1) ELSE p
                p2 == [p1 EXCEPT !.display[index] = p1.display[index] + 1]
            IN  DrawCols_Add(p2, startX, startY, sprite, row, col + 1)
       ELSE DrawCols_Add(p, startX, startY, sprite, row, col + 1)

\* The inner loop: columns col..7 of one sprite row.
RECURSIVE DrawCols(_, _, _, _, _, _)
DrawCols(p, startX, startY, sprite, row, col) ==
  IF p.panic # "" \/ col >= 8 \/ startX + col >= Width THEN p
  ELSE IF BitAnd(sprite, ShiftRight(128, col)) # 0
       THEN LET index == (startX + col) + ((startY + row) * Width)
                p1 == IF p.display[index] = 1 THEN SetV(p, CarryFlag, 1) ELSE p
                p2 == [p1 EXCEPT !.display[index] = BitXor(p1.display[index], 1)]
            IN  DrawCols(p2, startX, startY, sprite, row, col + 1)
       ELSE DrawCols(p, startX, startY, sprite, row, col + 1)

\* The outer loop: rows row..h-1.
RECURSIVE DrawRows(_, _, _, _, _)
DrawRows(p, startX, startY, h, row) ==
  IF p.panic # "" \/ row >= h \/ startY + row >= Height THEN p
  ELSE IF (p.i + row) % U16 >= MemorySize THEN Panic(p, IndexPanic)
  ELSE LET sprite == p.memory[(p.i + row) % U16]
       IN  DrawRows(DrawCols(p, startX, startY, sprite, row, 0), startX, startY, h, row + 1)

\* DrawSprite that takes Vx and Vy as the origin without masking them.
DrawSprite_UnmaskedOrigin(p, x, y, h) ==
  LET startX == p.v[x]
      startY == p.v[y]
      p1 == SetV(p, CarryFlag, 0)
  IN  DrawRows(p1, startX, startY, h, 0)

DrawSprite(p, x, y, h) ==
  LET startX == BitAnd(p.v[x], Width - 1)
      startY == BitAnd(p.v[y], Height - 1)
      p1 == SetV(p, CarryFlag, 0)
  IN  DrawRows(p1, startX, startY, h, 0)

drawSprite(p, x, y, n, inf) ==
  LET p1 == DrawSprite(p, x, y, n)
  IN  IF p1.panic # "" THEN <<p1, inf>> ELSE <<p1, BitOr(inf, Redraw)>>

(***************************************************************************)
(* Processor.Execute (src/chip8/cpu.go:296-389).  Returns                  *)
(* <<processor, info>>.                                                    *)
(***************************************************************************)
Execute8(p, op) ==
  LET x == OpX(op)
      y == OpY(op)
      n == OpN(op)
  IN  CASE n = 0 -> setXToY(p, x, y)
        [] n = 1 -> orXY(p, x, y)
        [] n = 2 -> andXY(p, x, y)
        [] n = 3 -> xorXY(p, x, y)
        [] n = 4 -> addXY(p, x, y)
        [] n = 5 -> subtractYFromX(p, x, y)
        [] n = 6 -> shiftRightX(p, x)
        [] n = 7 -> subtractXFromY(p, x, y)
        [] n = 14 -> shiftLeftX(p, x)
        [] OTHER -> Panic(p, "unknown 0x8 opcode")

ExecuteE(p, op) ==
  LET x == OpX(op)
      nn == OpNN(op)
  IN  CASE nn = 158 -> stepIfKeyDown(p, x)
        [] nn = 161 -> stepIfKeyUp(p, x)
        [] OTHER -> Panic(p, "unknown 0xE opcode")

ExecuteF(p, op) ==
  LET x == OpX(op)
      nn == OpNN(op)
  IN  CASE nn = 7 -> setXToDelay(p, x)
        [] nn = 10 -> pauseUntilKeyPressed(p, x)
        [] nn = 21 -> setDelayToX(p, x)
        [] nn = 24 -> setSoundToX(p, x)
        [] nn = 30 -> setIToX(p, x)
        [] nn = 41 -> setIToSymbol(p, x)
        [] nn = 51 -> binaryCodedDecimal(p, x)
        [] nn = 85 -> setRegistersToMemory(p, x)
        [] nn = 101 -> setMemoryToRegisters(p, x)
        [] OTHER -> Panic(p, "unknown 0xF opcode")

Execute(p, op, inf, randomByte) ==
  LET kind == OpKind(op)
  IN  CASE kind = 0 ->
             (CASE op = 224 -> clearScreen(p, inf)
                [] op = 238 -> <<returnFromSubroutine(p), inf>>
                [] OTHER -> <<Panic(p, "unknown 0x0 opcode"), inf>>)
        [] kind = 1 -> <<jumpToLocation(p, OpNNN(op)), inf>>
        [] kind = 2 -> <<callSubroutine(p, OpNNN(op)), inf>>
        [] kind = 3 -> <<stepIfXEqualsNN(p, OpX(op), OpNN(op)), inf>>
        [] kind = 4 -> <<stepIfXNotEqualsNN(p, OpX(op), OpNN(op)), inf>>
        [] kind = 5 -> <<stepIfXEqualsY(p, OpX(op), OpY(op)), inf>>
        [] kind = 6 -> <<setXToNN(p, OpX(op), OpNN(op)), inf>>
        [] kind = 7 -> <<addNNToX(p, OpX(op), OpNN(op)), inf>>
        [] kind = 8 -> <<Execute8(p, op), inf>>
        [] kind = 9 -> <<stepIfXNotEqualsY(p, OpX(op), OpY(op)), inf>>
        [] kind = 10 -> <<setIToNNN(p, OpNNN(op)), inf>>
        [] kind = 11 -> <<jumpWithOffset(p, OpNNN(op)), inf>>
        [] kind = 12 -> <<setXToRandom(p, OpX(op), OpNN(op), randomByte), inf>>
        [] kind = 13 -> drawSprite(p, OpX(op), OpY(op), OpN(op), inf)
        [] kind = 14 -> <<ExecuteE(p, op), inf>>
        [] kind = 15 -> <<ExecuteF(p, op), inf>>
        [] OTHER -> <<Panic(p, "unknown opcode"), inf>>

(***************************************************************************)
(* Processor.OpcodeAt and Processor.Step (src/chip8/cpu.go:481-522).       *)
(***************************************************************************)
\* <<read, opcode>>: the count Read returned and the word built from the
\* two buffer bytes.
OpcodeAt(p, offset) ==
  LET r == Read(p, offset, <<0, 0>>)
      high == r[2][1]
      low == r[2][2]
  IN  << r[1], BitOr(ShiftLeft(high, 8, U16), low) >>

\* The timer decay: since is time.Since(p.lastTimerUpdate).
DecayTimers(p, since) ==
  IF since >= TimerRate
  THEN [p EXCEPT !.sound = IF p.sound > 0 THEN p.sound - 1 ELSE p.sound,
                 !.delay = IF p.delay > 0 THEN p.delay - 1 ELSE p.delay,
                 !.sinceTimerUpdate = 0]
  ELSE [p EXCEPT !.sinceTimerUpdate = since]

StatusMask(p, inf) ==
  LET i1 == IF p.sound > 0 THEN BitOr(inf, Sound) ELSE inf
  IN  IF p.delay > 0 THEN BitOr(i1, Delay) ELSE i1

\* Step that builds the status mask from the timers as they are before the
\* decay.
Step_MaskBeforeDecay(p, dt, randomByte) ==
  LET f == OpcodeAt(p, p.pc)
  IN  IF f[1] < 2 THEN <<Panic(p, "program runaway"), 0>>
      ELSE LET p1 == [p EXCEPT !.pc = (p.pc + 2) % U16]
               e == Execute(p1, f[2], 0, randomByte)
               since == IF p.sinceTimerUpdate + dt >= TimerRate
                        THEN TimerRate ELSE p.sinceTimerUpdate + dt
               p2 == DecayTimers(e[1], since)
           IN  IF e[1].panic # "" THEN <<e[1], 0>>
               ELSE <<p2, StatusMask(e[1], e[2])>>

\* Step that advances the program counter before it fetches.
Step_AdvanceFirst(p, dt, randomByte) ==
  LET f == OpcodeAt(p, p.pc)
      p1 == [p EXCEPT !.pc = (p.pc + 2) % U16]
  IN  IF f[1] < 2 THEN <<Panic(p1, "program runaway"), 0>>
      ELSE LET e == Execute(p1, f[2], 0, randomByte)
               since == IF p.sinceTimerUpdate + dt >= TimerRate
                        THEN TimerRate ELSE p.sinceTimerUpdate + dt
               p2 == DecayTimers(e[1], since)
           IN  IF e[1].panic # "" THEN <<e[1], 0>>
               ELSE <<p2, StatusMask(p2, e[2])>>

\* Step whose decay catches up: one decrement for every whole interval that
\* has passed.
Step_CatchUp(p, dt, randomByte) ==
  LET f == OpcodeAt(p, p.pc)
  IN  IF f[1] < 2 THEN <<Panic(p, "program runaway"), 0>>
      ELSE LET p1 == [p EXCEPT !.pc = (p.pc + 2) % U16]
               e == Execute(p1, f[2], 0, randomByte)
               n == (p.sinceTimerUpdate + dt) \div TimerRate
               p2 == IF n >= 1
                     THEN [e[1] EXCEPT !.sound = IF e[1].sound > n THEN e[1].sound - n ELSE 0,
                                       !.delay = IF e[1].delay > n THEN e[1].delay - n ELSE 0,
                                       !.sinceTimerUpdate = 0]
                     ELSE [e[1] EXCEPT !.sinceTimerUpdate = p.sinceTimerUpdate + dt]
           IN  IF e[1].panic # "" THEN <<e[1], 0>>
               ELSE <<p2, StatusMask(p2, e[2])>>

\* Step that runs the timer decay before it dispatches the instruction.
Step_DecayFirst(p, dt, randomByte) ==
  LET f == OpcodeAt(p, p.pc)
  IN  IF f[1] < 2 THEN <<Panic(p, "program runaway"), 0>>
      ELSE LET since == IF p.sinceTimerUpdate + dt >= TimerRate
                        THEN TimerRate ELSE p.sinceTimerUpdate + dt
               p1 == DecayTimers([p EXCEPT !.pc = (p.pc + 2) % U16], since)
               e == Execute(p1, f[2], 0, randomByte)
           IN  IF e[1].panic # "" THEN <<e[1], 0>>
               ELSE <<e[1], StatusMask(e[1], e[2])>>

\* dt is the wall-clock time that passed since the previous Step returned.
\* Returns <<processor, info>>; after a panic info is the zero value.
Step(p, dt, randomByte) ==
  LET f == OpcodeAt(p, p.pc)
  IN  IF f[1] < 2 THEN <<Panic(p, "program runaway"), 0>>
      ELSE LET p1 == [p EXCEPT !.pc = (p.pc + 2) % U16]
               e == Execute(p1, f[2], 0, randomByte)
               since == IF p.sinceTimerUpdate + dt >= TimerRate
                        THEN TimerRate ELSE p.sinceTimerUpdate + dt
               p2 == DecayTimers(e[1], since)
           IN  IF e[1].panic # "" THEN <<e[1], 0>>
               ELSE <<p2, StatusMask(p2, e[2])>>

(***************************************************************************)
(* Bounds of the model, and the input sets drawn from them.                *)
(***************************************************************************)
\* Steps explored after a Load.
MaxSteps == 40
\* Byte values sampled at each edge of 0..255.
ByteSpread == 0
\* Register indices sampled at each edge of 0x0..0xF.
RegSpread == 1

ByteSample == (0..ByteSpread) \cup ((255 - ByteSpread)..255) \cup {127, 128}
RegSample == (0..RegSpread) \cup ((15 - RegSpread)..15)
\* The outcomes of time.Since between two Steps: none of the timer
\* interval, or all of it.
DtSet == {0, TimerRate}

(***************************************************************************)
(* Programs: instruction words and their bytes, high byte first.           *)
(***************************************************************************)
Asm(ops) ==
  [k \in 1..(2 * Len(ops)) |->
     IF k % 2 = 1 THEN ops[(k + 1) \div 2] \div 256 ELSE ops[k \div 2] % 256]

InsCLS == 224
InsRET == 238
InsJP(nnn) == 4096 + nnn
InsCALL(nnn) == 8192 + nnn
InsLD(x, nn) == 24576 + x * 256 + nn
InsALU(x, y, n) == 32768 + x * 256 + y * 16 + n
InsLDI(nnn) == 40960 + nnn
InsDRW(x, y, n) == 53248 + x * 256 + y * 16 + n
InsKeyWait(x) == 61440 + x * 256 + 10
InsBCD(x) == 61440 + x * 256 + 51
InsSetDelay(x) == 61440 + x * 256 + 21
InsSetSound(x) == 61440 + x * 256 + 24
InsJPV0(nnn) == 45056 + nnn
InsStore(x) == 61440 + x * 256 + 85
InsRestore(x) == 61440 + x * 256 + 101
InsSKP(x) == 57344 + x * 256 + 158
InsSKNP(x) == 57344 + x * 256 + 161
InsAddI(x) == 61440 + x * 256 + 30
InsRND(x, nn) == 49152 + x * 256 + nn
InsGetDelay(x) == 61440 + x * 256 + 7
InsFont(x) == 61440 + x * 256 + 41
InsSE(x, nn) == 12288 + x * 256 + nn
InsSNE(x, nn) == 16384 + x * 256 + nn
InsSEV(x, y) == 20480 + x * 256 + y * 16
InsSNEV(x, y) == 36864 + x * 256 + y * 16

\* The sub-opcodes of the register-ALU group that write the carry register.
AluFlagOps == {1, 2, 3, 4, 5, 6, 7, 14}

\* LD Vx, a; LD Vy, b; <ALU op> Vx, Vy.
AluPrograms ==
  { Asm(<< InsLD(x, a), InsLD(y, b), InsALU(x, y, n) >>) :
      x \in RegSample, y \in RegSample, a \in ByteSample, b \in ByteSample,
      n \in AluFlagOps }

(***************************************************************************)
(* Actions.                                                                *)
(***************************************************************************)
NoCall == [op |-> "", loc |-> 0, n |-> 0, data |-> <<>>, key |-> 0, value |-> FALSE]
\* No instruction has written the timer: it holds its reset value 0.
NoTimed == [delay |-> <<0, 0>>, sound |-> <<0, 0>>, dt |-> 0]
\* The execution thread is not inside a key-wait Step.
NoScan == [active |-> FALSE, i |-> 0, op |-> 0]
\* The points of the back-buffer, and the buffer image.NewRGBA returns:
\* every pixel the zero colour.
Pixels == (0..(Width - 1)) \X (0..(Height - 1))
NewRGBA == [pt \in Pixels |-> "clear"]
\* The Emulator before Run: the zero value of its fields.
NoEmu == [running |-> FALSE, paused |-> FALSE, next |-> FALSE, beeping |-> FALSE,
          buffer |-> NewRGBA, at |-> "off", asked |-> 0, ran |-> 0]

Init ==
  /\ cpu = Reset(ZeroProcessor)
  /\ info = 0
  /\ image = <<>>
  /\ out = NoCall
  /\ loaded = FALSE
  /\ steps = 0
  /\ hist = <<>>
  /\ trace = <<>>
  /\ timed = NoTimed
  /\ scan = NoScan
  /\ emu = NoEmu

\* Emulator.Load (src/emulator.go:82-85): Reset, then Load.
CanLoad == ~loaded /\ cpu.panic = ""

DoLoad(b) ==
  /\ CanLoad
  /\ cpu' = Load(Reset(cpu), b)
  /\ image' = b
  /\ loaded' = TRUE
  /\ steps' = 0
  /\ hist' = <<>>
  /\ trace' = <<>>
  /\ timed' = NoTimed
  /\ UNCHANGED <<info, out, scan, emu>>

\* The random source is consulted by Cxnn alone.
RandomSet(p) ==
  IF OpKind(OpcodeAt(p, p.pc)[2]) = 12 THEN ByteSample ELSE {0}

\* What a clocked run keeps for one timer across a Step that fetched op
\* (fetched says whether it did) and ended in q: an instruction of low
\* byte nn (0x15 for the delay timer, 0x18 for the sound timer) that ran to
\* its end restarts the record with the value it wrote; any other Step adds
\* the dt that passed before it, in timer intervals.
TimedAfter(t, p, q, fetched, op, nn, dt) ==
  IF fetched /\ q.panic = "" /\ OpKind(op) = 15 /\ OpNN(op) = nn
  THEN << p.v[OpX(op)], 0 >>
  ELSE << t[1], t[2] + (dt \div TimerRate) >>

\* One call of Processor.Step.  keep says whether the run records the
\* processor as it was before the Step, clock what it keeps in `timed` (the
\* timer records, the time that passed before the Step, or nothing), dts
\* the wall-clock times that may have passed before the Step.
StepOver(keep, clock, dts) ==
  /\ cpu.panic = ""
  /\ ~scan.active
  /\ steps < MaxSteps
  /\ \E dt \in dts, randomByte \in RandomSet(cpu) :
       LET r == Step(cpu, dt, randomByte)
           f == OpcodeAt(cpu, cpu.pc)
       IN  /\ cpu' = r[1]
           /\ info' = r[2]
           /\ trace' = Append(trace, <<cpu.pc, IF f[1] < 2 THEN -1 ELSE f[2]>>)
           /\ timed' = CASE clock = "timers" ->
                              [timed EXCEPT
                                 !.delay = TimedAfter(timed.delay, cpu, r[1], f[1] = 2, f[2], 21, dt),
                                 !.sound = TimedAfter(timed.sound, cpu, r[1], f[1] = 2, f[2], 24, dt)]
                         [] clock = "dt" -> [timed EXCEPT !.dt = dt]
                         [] OTHER -> timed
  /\ hist' = IF keep THEN <<cpu>> ELSE <<>>
  /\ steps' = steps + 1
  /\ UNCHANGED <<image, out, loaded, scan, emu>>

StepWith(keep, clocked) == StepOver(keep, IF clocked THEN "timers" ELSE "", DtSet)

DoStep(keep) == StepWith(keep, FALSE)

\* A Step of a run that keeps the timer records.
DoClockedStep == StepWith(FALSE, TRUE)

\* One call of Processor.Write.
DoWrite(loc, data) ==
  /\ cpu.panic = ""
  /\ LET w == Write(cpu, loc, data)
     IN  /\ cpu' = w[1]
         /\ out' = [NoCall EXCEPT !.op = "Write", !.loc = loc, !.n = w[2], !.data = data]
  /\ UNCHANGED <<info, image, loaded, steps, hist, trace, timed, scan, emu>>

\* One call of Processor.Reset.
DoReset ==
  /\ cpu.panic = ""
  /\ cpu' = Reset(cpu)
  /\ out' = [NoCall EXCEPT !.op = "Reset"]
  /\ UNCHANGED <<info, image, loaded, steps, hist, trace, timed, scan, emu>>

\* One call of Processor.Load on the processor as it stands.
DoProcessorLoad(b) ==
  /\ cpu.panic = ""
  /\ cpu' = Load(cpu, b)
  /\ image' = b
  /\ out' = [NoCall EXCEPT !.op = "Load", !.loc = ProgramStartAddress, !.data = b]
  /\ UNCHANGED <<info, loaded, steps, hist, trace, timed, scan, emu>>

\* One call of Processor.SetKey whose arguments the run logs.
LogSetKey(key, value) ==
  /\ cpu.panic = ""
  /\ cpu' = SetKey(cpu, key, value)
  /\ out' = [NoCall EXCEPT !.op = "SetKey", !.key = key, !.value = value]
  /\ UNCHANGED <<info, image, loaded, steps, hist, trace, timed, scan, emu>>

\* One call of Processor.SetKey by the input handlers
\* (src/emulator.go:60-80).
DoSetKey(key, value) ==
  /\ cpu.panic = ""
  /\ cpu' = SetKey(cpu, key, value)
  /\ UNCHANGED <<info, image, out, loaded, steps, hist, trace, timed, scan, emu>>

\* One call of Processor.Read with a zeroed buffer of len bytes.
DoRead(loc, len) ==
  /\ cpu.panic = ""
  /\ LET r == Read(cpu, loc, [k \in 1..len |-> 0])
     IN  out' = [NoCall EXCEPT !.op = "Read", !.loc = loc, !.n = r[1], !.data = r[2]]
  /\ UNCHANGED <<cpu, info, image, loaded, steps, hist, trace, timed, scan, emu>>

LoadALU == CanLoad /\ \E b \in AluPrograms : DoLoad(b)

NextALU == LoadALU \/ DoStep(FALSE)

SpecALU == Init /\ [][NextALU]_vars

(***************************************************************************)
(* What the claims read.  A claim about one Step is a property of the      *)
(* transition: cpu is the processor before the Step, cpu' the processor    *)
(* after it, Op the instruction word the Step fetches.                     *)
(***************************************************************************)
StepTaken == steps' = steps + 1
\* The Step ran its instruction to the end.
Ran == StepTaken /\ cpu'.panic = ""
\* The Step read both bytes of its instruction.
Fetched == OpcodeAt(cpu, cpu.pc)[1] = 2
Op == OpcodeAt(cpu, cpu.pc)[2]
RanAlu(n) == Ran /\ OpKind(Op) = 8 /\ OpN(Op) = n
\* In a state: the instruction the last completed Step executed.
Stepped == Len(trace) > 0 /\ cpu.panic = ""
LastOp == trace[Len(trace)][2]
LastPc == trace[Len(trace)][1]
LastWasAlu(n) == Stepped /\ OpKind(LastOp) = 8 /\ OpN(LastOp) = n
Flag(cond) == IF cond THEN 1 ELSE 0
\* x and y name distinct registers, neither of them VF.
GeneralPair(op) == OpX(op) # OpY(op) /\ OpX(op) < CarryFlag /\ OpY(op) < CarryFlag

(***************************************************************************)
(* C1.  ADD (8xy4) with Vx = a and Vy = b leaves Vx = (a+b) mod 256 and    *)
(* VF = 1 iff a+b > 255.                                                   *)
(***************************************************************************)
AddPost(x, y) ==
  LET a == cpu.v[x]
      b == cpu.v[y]
  IN  /\ cpu'.v[x] = (a + b) % 256
      /\ cpu'.v[CarryFlag] = Flag(a + b > 255)

\* C1 as stated, for all x, y in 0x0..0xF: every Step that executes
\* ADD Vx, Vy leaves Vx = (a+b) mod 256 and VF = the carry.
C1_AddAllRegisters ==
  [][RanAlu(4) => AddPost(OpX(Op), OpY(Op))]_vars

\* C1 amended: for x in 0x0..0xE and y in 0x0..0xF, every Step that
\* executes ADD Vx, Vy leaves Vx = (a+b) mod 256 and VF = 1 if a+b > 255,
\* 0 otherwise.
C1_AddGeneralX ==
  [][(RanAlu(4) /\ OpX(Op) # CarryFlag) => AddPost(OpX(Op), OpY(Op))]_vars

\* An ADD into a general register, with VF as the source, that carried.
C1_Witness ==
  /\ LastWasAlu(4)
  /\ OpX(LastOp) # CarryFlag
  /\ OpY(LastOp) = CarryFlag
  /\ cpu.v[CarryFlag] = 1
  /\ cpu.v[OpX(LastOp)] = 254

(***************************************************************************)
(* C2.  SUB (8xy5), distinct general registers x, y in 0x0..0xE: Vx        *)
(* becomes (a-b) mod 256 and VF is 1 iff a >= b, compared before the       *)
(* subtraction.                                                            *)
(***************************************************************************)
\* C2: every Step that executes SUB Vx, Vy on distinct general registers
\* leaves Vx = (a-b) mod 256 and VF = 1 iff a >= b, 0 otherwise.
C2_Sub ==
  [][(RanAlu(5) /\ GeneralPair(Op)) =>
       LET a == cpu.v[OpX(Op)]
           b == cpu.v[OpY(Op)]
       IN  /\ cpu'.v[OpX(Op)] = (a - b) % 256
           /\ cpu'.v[CarryFlag] = Flag(a >= b)]_vars

\* A SUB on distinct general registers that borrowed and wrapped around.
C2_Witness ==
  /\ LastWasAlu(5)
  /\ GeneralPair(LastOp)
  /\ cpu.v[CarryFlag] = 0
  /\ cpu.v[OpX(LastOp)] > cpu.v[OpY(LastOp)]

(***************************************************************************)
(* C3.  SUBN (8xy7), distinct general registers: Vx becomes (b-a) mod 256  *)
(* and VF is 1 iff b >= a.                                                 *)
(***************************************************************************)
\* C3: every Step that executes SUBN Vx, Vy on distinct general registers
\* leaves Vx = (b-a) mod 256 and VF = 1 iff b >= a, 0 otherwise.
C3_SubN ==
  [][(RanAlu(7) /\ GeneralPair(Op)) =>
       LET a == cpu.v[OpX(Op)]
           b == cpu.v[OpY(Op)]
       IN  /\ cpu'.v[OpX(Op)] = (b - a) % 256
           /\ cpu'.v[CarryFlag] = Flag(b >= a)]_vars

\* A SUBN on distinct general registers that borrowed and wrapped around.
C3_Witness ==
  /\ LastWasAlu(7)
  /\ GeneralPair(LastOp)
  /\ cpu.v[CarryFlag] = 0
  /\ cpu.v[OpX(LastOp)] > cpu.v[OpY(LastOp)]

(***************************************************************************)
(* C4.  With x = 0xF the flag write of OR, AND, XOR, ADD, SUB, SUBN, SHR   *)
(* and SHL is authoritative: VF ends as the flag, not as the result.       *)
(***************************************************************************)
\* The flag the instruction n reports for operands a = Vx and b = Vy.
AluFlag(n, a, b) ==
  CASE n = 4 -> Flag(a + b > 255)
    [] n = 5 -> Flag(a >= b)
    [] n = 7 -> Flag(b >= a)
    [] n = 6 -> a % 2
    [] n = 14 -> a \div 128
    [] OTHER -> 0

\* C4: every Step that executes a flag-writing ALU instruction with
\* x = 0xF leaves VF = the carry, borrow or shifted-out flag (0 for OR,
\* AND, XOR).
C4_FlagAuthoritative ==
  [][(Ran /\ OpKind(Op) = 8 /\ OpN(Op) \in AluFlagOps /\ OpX(Op) = CarryFlag) =>
       cpu'.v[CarryFlag] = AluFlag(OpN(Op), cpu.v[OpX(Op)], cpu.v[OpY(Op)])]_vars

(***************************************************************************)
(* C5.  BCD (Fx33).  Programs LD Vx, v; LD I, addr; BCD Vx, for every byte *)
(* v, with the digits landing on free memory, on the program itself and on *)
(* the last three bytes of memory (and beyond them).                       *)
(***************************************************************************)
BcdAddresses ==
  { FontStartAddress, ProgramStartAddress, ProgramStartAddress + 4,
    MemorySize - 3, MemorySize - 2 }

BcdPrograms ==
  { Asm(<< InsLD(x, v), InsLDI(addr), InsBCD(x) >>) :
      x \in RegSample, v \in 0..(U8 - 1), addr \in BcdAddresses }

LoadBCD == CanLoad /\ \E b \in BcdPrograms : DoLoad(b)

NextBCD == LoadBCD \/ DoStep(FALSE)

SpecBCD == Init /\ [][NextBCD]_vars

IsBcd(op) == OpKind(op) = 15 /\ OpNN(op) = 51

\* C5: every Step that executes BCD Vx with Vx = v and I + 2 <= 0xFFF
\* completes and leaves memory[I] = v div 100, memory[I+1] = (v div 10) mod
\* 10, memory[I+2] = v mod 10, every other memory byte as it was, and the
\* registers V0..VF, I and the call stack as they were.
C5_Bcd ==
  [][(StepTaken /\ Fetched /\ IsBcd(Op) /\ cpu.i + 2 <= 4095) =>
       LET v == cpu.v[OpX(Op)]
           I == cpu.i
       IN  /\ cpu'.panic = ""
           /\ cpu'.memory = [cpu.memory EXCEPT ![I] = v \div 100,
                                               ![I + 1] = (v \div 10) % 10,
                                               ![I + 2] = v % 10]
           /\ cpu'.v = cpu.v
           /\ cpu'.i = cpu.i
           /\ cpu'.sp = cpu.sp
           /\ cpu'.stack = cpu.stack]_vars

\* BCD of 156 stored on the last three bytes of memory.
C5_Witness ==
  /\ Stepped
  /\ IsBcd(LastOp)
  /\ cpu.v[OpX(LastOp)] = 156
  /\ cpu.i = 4093
  /\ cpu.memory[4093] = 1
  /\ cpu.memory[4094] = 5
  /\ cpu.memory[4095] = 6

(***************************************************************************)
(* C6, C7.  Drawing.  Programs                                             *)
(*   LD Vx, a; LD Vy, b; LD I, addr; DRW Vy, Vx, 15; [CLS;]                *)
(*   DRW Vx, Vy, n; DRW Vx, Vy, n                                          *)
(* The first draw dirties the screen; the sprite bytes are a font glyph,   *)
(* the program itself, or the last bytes of memory; the coordinates sit in *)
(* a corner, against the right and bottom edges, and past them.            *)
(***************************************************************************)
DrawRegs == { <<0, 1>>, <<1, 1>>, <<15, 1>>, <<0, 15>>, <<15, 15>> }
DrawCoords == { 0, 29, 255 }
DrawAddresses == { FontStartAddress, ProgramStartAddress, MemorySize - 3 }
DrawHeights == { 0, 1, 5, 15 }

DrawProgram(x, y, a, b, addr, n, cls) ==
  Asm(<< InsLD(x, a), InsLD(y, b), InsLDI(addr), InsDRW(y, x, 15) >>
      \o (IF cls THEN << InsCLS >> ELSE << >>)
      \o << InsDRW(x, y, n), InsDRW(x, y, n) >>)

DrawPrograms ==
  { DrawProgram(r[1], r[2], a, b, addr, n, cls) :
      r \in DrawRegs, a \in DrawCoords, b \in DrawCoords,
      addr \in DrawAddresses, n \in DrawHeights, cls \in BOOLEAN }

LoadDraw == CanLoad /\ \E b \in DrawPrograms : DoLoad(b)

NextDraw == LoadDraw \/ DoStep(TRUE)

SpecDraw == Init /\ [][NextDraw]_vars

IsDraw(op) == OpKind(op) = 13
Cells == 0..(Area - 1)

\* The run has executed a clear-screen and no draw since.
ClearedAndUndrawn ==
  \E j \in 1..Len(trace) :
    /\ trace[j][2] = InsCLS
    /\ \A m \in (j + 1)..Len(trace) : ~IsDraw(trace[m][2])

\* C6: every Step that executes a draw-sprite instruction, the first draw
\* since a clear-screen instruction, leaves VF = 0, whatever the sprite
\* bytes, the height n and the values of Vx and Vy.
C6_ClearThenDraw ==
  [][(StepTaken /\ Fetched /\ IsDraw(Op) /\ ClearedAndUndrawn) =>
       cpu'.v[CarryFlag] = 0]_vars

\* A draw right after a clear-screen that wiped a dirty screen: the draw
\* lit pixels and reported no collision.
C6_Witness ==
  /\ Stepped
  /\ Len(trace) >= 3
  /\ IsDraw(LastOp)
  /\ trace[Len(trace) - 1][2] = InsCLS
  /\ IsDraw(trace[Len(trace) - 2][2])
  /\ hist[1].display = ZeroDisplay
  /\ \E c \in Cells : cpu.display[c] = 1
  /\ cpu.v[CarryFlag] = 0

\* Before a Step: the previous Step was a draw, this Step is a draw, and
\* both have the same height, the same I (a draw leaves memory alone, so the
\* same sprite bytes) and the same start coordinates.
SameDrawAgain ==
  /\ Stepped
  /\ IsDraw(LastOp)
  /\ Fetched
  /\ IsDraw(Op)
  /\ OpN(LastOp) = OpN(Op)
  /\ hist[1].i = cpu.i
  /\ hist[1].v[OpX(LastOp)] % Width = cpu.v[OpX(Op)] % Width
  /\ hist[1].v[OpY(LastOp)] % Height = cpu.v[OpY(Op)] % Height

\* C7: when a Step draws the sprite the previous Step drew, at the same
\* location, every framebuffer cell ends with the value it had before the
\* first of the two draws, and VF ends as 1 if the first draw turned at
\* least one pixel on.
C7_DrawTwice ==
  [][(StepTaken /\ SameDrawAgain) =>
       /\ cpu'.panic = ""
       /\ cpu'.display = hist[1].display
       /\ (\E c \in Cells : hist[1].display[c] = 0 /\ cpu.display[c] = 1)
            => cpu'.v[CarryFlag] = 1]_vars

\* The second of two identical draws on a dirty screen: it turned a pixel
\* off that was on in between and reported the collision.
C7_Witness ==
  /\ Stepped
  /\ Len(trace) >= 3
  /\ IsDraw(LastOp)
  /\ trace[Len(trace) - 1][2] = LastOp
  /\ IsDraw(trace[Len(trace) - 2][2])
  /\ OpX(LastOp) # CarryFlag
  /\ OpY(LastOp) # CarryFlag
  /\ \E c \in Cells : hist[1].display[c] = 1 /\ cpu.display[c] = 0
  /\ \E c \in Cells : cpu.display[c] = 1
  /\ cpu.v[CarryFlag] = 1

(***************************************************************************)
(* C8.  Key-wait (Fx0A).  Programs LD Vx, 255; LD Vx, K; LD V1, 1 run      *)
(* while the input handlers set and clear keys between the Steps.          *)
(***************************************************************************)
\* Key codes the handlers pass: three keys, and two codes above 0xF that
\* SetKey masks onto them.
KeySample == { 0, 3, 15, 19, 255 }

KeyPrograms ==
  { Asm(<< InsLD(x, 255), InsKeyWait(x), InsLD(1, 1) >>) : x \in RegSample }

LoadKey == CanLoad /\ \E b \in KeyPrograms : DoLoad(b)

PressKey == \E key \in KeySample, value \in BOOLEAN : DoSetKey(key, value)

NextKey == LoadKey \/ DoStep(FALSE) \/ PressKey

SpecKey == Init /\ [][NextKey]_vars

IsKeyWait(op) == OpKind(op) = 15 /\ OpNN(op) = 10
Keys == 0..(KeyCount - 1)
NoKeySet(p) == \A k \in Keys : ~p.keyState[k]
LowestKey(p) == CHOOSE k \in Keys : p.keyState[k] /\ \A j \in 0..(k - 1) : ~p.keyState[j]

\* C8: a Step on a key-wait instruction completes; with no key set in the
\* latch it leaves PC on that instruction and Vx (every register) as it
\* was; with some key set it leaves Vx = the lowest-indexed set key and
\* PC on the next instruction.
C8_KeyWait ==
  [][(StepTaken /\ Fetched /\ IsKeyWait(Op)) =>
       /\ cpu'.panic = ""
       /\ IF NoKeySet(cpu)
          THEN cpu'.pc = cpu.pc /\ cpu'.v = cpu.v
          ELSE /\ cpu'.v[OpX(Op)] = LowestKey(cpu)
               /\ cpu'.pc = cpu.pc + 2]_vars

\* A key-wait that was replayed and then completed with keys 3 and 0xF
\* down: Vx holds 3 and PC has moved on.
C8_Witness ==
  /\ Stepped
  /\ Len(trace) >= 3
  /\ IsKeyWait(LastOp)
  /\ trace[Len(trace) - 1] = trace[Len(trace)]
  /\ cpu.pc = LastPc + 2
  /\ cpu.keyState[3]
  /\ cpu.keyState[15]
  /\ cpu.v[OpX(LastOp)] = 3

(***************************************************************************)
(* C9.  Call and return.  Programs of k nested subroutines, sw words       *)
(* apart: the main program calls the first, each subroutine but the last   *)
(* calls the next and returns, the last one returns at once.               *)
(***************************************************************************)
\* The deepest nesting explored: one call more than the stack holds.
MaxDepth == 17

SubAddress(sw, j) == ProgramStartAddress + 2 * sw * j

CallWord(k, sw, idx) ==
  LET j == idx \div sw
  IN  IF idx % sw = 0
      THEN (IF j < k THEN InsCALL(SubAddress(sw, j + 1)) ELSE InsRET)
      ELSE IF idx % sw = 1 /\ j >= 1 THEN InsRET
      ELSE 0

CallProgram(k, sw) == Asm([w \in 1..(sw * k + 1) |-> CallWord(k, sw, w - 1)])

CallPrograms == { CallProgram(k, sw) : k \in 1..MaxDepth, sw \in {2, 3} }

LoadCall == CanLoad /\ \E b \in CallPrograms : DoLoad(b)

NextCall == LoadCall \/ DoStep(FALSE)

SpecCall == Init /\ [][NextCall]_vars

IsCall(op) == OpKind(op) = 2
IsRet(op) == op = InsRET

\* Calls less returns among the first n Steps of the run.
Depth(n) ==
  Cardinality({j \in 1..n : IsCall(trace[j][2])})
    - Cardinality({j \in 1..n : IsRet(trace[j][2])})

\* The call that the next return answers: the latest call that raised the
\* depth to its present value.
MatchingCall ==
  LET open == {j \in 1..Len(trace) : IsCall(trace[j][2]) /\ Depth(j) = Depth(Len(trace))}
  IN  CHOOSE j \in open : \A m \in open : m <= j

\* C9: every Step that executes a return with a call outstanding completes
\* and leaves PC = A + 2 for the address A of the call it answers (the
\* latest one not yet returned from, so returns go in reverse order of the
\* calls) and the stack depth at its value before that call.
C9_CallReturn ==
  [][(StepTaken /\ Fetched /\ IsRet(Op) /\ Depth(Len(trace)) > 0) =>
       /\ cpu'.panic = ""
       /\ cpu.sp = Depth(Len(trace))
       /\ cpu'.pc = trace[MatchingCall][1] + 2
       /\ cpu'.sp = Depth(MatchingCall) - 1]_vars

\* Sixteen nested calls and the sixteen returns: back in the main program,
\* right after its call, with an empty stack.
C9_Witness ==
  /\ Stepped
  /\ Len(trace) = 2 * StackSize
  /\ \A j \in 1..StackSize : IsCall(trace[j][2])
  /\ \A j \in (StackSize + 1)..(2 * StackSize) : IsRet(trace[j][2])
  /\ cpu.pc = ProgramStartAddress + 2
  /\ cpu.sp = 0

(***************************************************************************)
(* C10.  Load, then Read.  Images of lengths around the capacity           *)
(* 0xFFF - 0x200, filled with a byte pattern.                              *)
(***************************************************************************)
\* Lengths sampled at each edge of the capacity.
LenSpread == 1

Capacity == TransferLimit - ProgramStartAddress

MemLengths ==
  (0..LenSpread) \cup ((Capacity - LenSpread)..(Capacity + 1 + LenSpread))

\* n bytes: first, first + stride, first + 2 * stride, ... modulo 256.
MemImage(n, first, stride) == [k \in 1..n |-> (first + stride * (k - 1)) % U8]

MemImages ==
  { MemImage(n, first, stride) :
      n \in MemLengths, first \in ByteSample, stride \in {1, 7} }

LoadMem == CanLoad /\ \E b \in MemImages : DoLoad(b)

\* Reads of the whole image, and of its first bytes.
ReadMem ==
  \E len \in {Len(image)} \cup (0..LenSpread) : DoRead(ProgramStartAddress, len)

NextMem == LoadMem \/ ReadMem

SpecMem == Init /\ [][NextMem]_vars

\* C10: a Load of N <= 0xFFF - 0x200 bytes succeeds, and every Read after
\* it of N bytes at 0x200 returns the count N and the loaded bytes; a Load
\* of more bytes fails with "insufficient memory".
C10_LoadRead ==
  [][/\ (~loaded /\ loaded') =>
          IF Len(image') <= 3583
          THEN cpu'.panic = "" /\ cpu'.pc = 512
          ELSE cpu'.panic = "insufficient memory"
     /\ (loaded /\ Len(image) <= 3583 /\ out' # out /\ out'.op = "Read" /\ out'.loc = 512
           /\ Len(out'.data) = Len(image)) =>
          out'.n = Len(image) /\ out'.data = image]_vars

\* An image of exactly 0xFFF - 0x200 bytes, read back whole.
C10_Witness ==
  /\ loaded
  /\ cpu.panic = ""
  /\ Len(image) = 3583
  /\ image[3583] # 0
  /\ out.op = "Read"
  /\ out.loc = 512
  /\ out.n = 3583
  /\ out.data = image

(***************************************************************************)
(* C11, C18.  Timers and the status mask.  Programs                        *)
(*   LD V0, v; LD V1, w; LD DT, V0; LD ST, V1; <slot>; LD V2, 0 (5 times)  *)
(* where the slot clears the screen, draws, writes the delay timer again,  *)
(* or does nothing of the kind.  The run keeps, per timer, the value last  *)
(* written and the timer intervals of wall-clock time passed since.        *)
(***************************************************************************)
TimerValues == 0..3

TimerSlots == { InsCLS, InsDRW(0, 0, 1), InsSetDelay(1), InsLD(2, 0) }

TimerPrograms ==
  { Asm(<< InsLD(0, v), InsLD(1, w), InsSetDelay(0), InsSetSound(1), slot,
           InsLD(2, 0), InsLD(2, 0), InsLD(2, 0), InsLD(2, 0), InsLD(2, 0) >>) :
      v \in TimerValues, w \in TimerValues, slot \in TimerSlots }

LoadTimer == CanLoad /\ \E b \in TimerPrograms : DoLoad(b)

NextTimer == LoadTimer \/ DoClockedStep

SpecTimer == Init /\ [][NextTimer]_vars

\* A timer that an instruction set to t[1], t[2] intervals ago, is at zero
\* exactly when t[2] has reached t[1].
ZeroOnTime(t, timer) == (timer = 0) <=> (t[2] >= t[1])

\* C11: in every state the delay and sound timers are within 0..255, and a
\* timer that an instruction set to v, and none rewrote, is at zero exactly
\* when v timer intervals have passed since.
C11_TimersExact ==
  cpu.panic = "" =>
    /\ cpu.delay \in 0..255
    /\ cpu.sound \in 0..255
    /\ ZeroOnTime(timed.delay, cpu.delay)
    /\ ZeroOnTime(timed.sound, cpu.sound)

(***************************************************************************)
(* C18.  The status mask of a Step that returns.                           *)
(***************************************************************************)
HasBit(mask, bit) == (mask \div bit) % 2 = 1

\* C18: after every Step that returns, the Sound bit of the mask is set iff
\* the sound timer is non-zero (the decay of that Step included), the Delay
\* bit iff the delay timer is non-zero, and the Redraw bit iff the Step
\* executed clear-screen or draw-sprite.
C18_StatusMask ==
  [][Ran =>
       /\ HasBit(info', Sound) <=> (cpu'.sound > 0)
       /\ HasBit(info', Delay) <=> (cpu'.delay > 0)
       /\ HasBit(info', Redraw) <=> (Op = InsCLS \/ IsDraw(Op))
       /\ info' < 8]_vars

\* A draw whose Step took the delay timer to zero and left the sound timer
\* running: the mask is Redraw and Sound.
C18_Witness ==
  /\ Stepped
  /\ IsDraw(LastOp)
  /\ cpu.delay = 0
  /\ timed.delay[1] = 1
  /\ cpu.sound > 0
  /\ info = Redraw + Sound

(***************************************************************************)
(* C12.  The bounds of the call stack.  The nested programs of C9, a       *)
(* program that returns at once, and one that calls itself for ever.       *)
(***************************************************************************)
StackPrograms ==
  CallPrograms
    \cup { Asm(<< InsRET >>), Asm(<< InsLD(0, 1), InsRET >>),
           Asm(<< InsCALL(ProgramStartAddress) >>),
           Asm(<< InsLD(0, 1), InsCALL(ProgramStartAddress + 2) >>) }

LoadStack == CanLoad /\ \E b \in StackPrograms : DoLoad(b)

NextStack == LoadStack \/ DoStep(FALSE)

SpecStack == Init /\ [][NextStack]_vars

\* C12: the stack depth is within 0..16 before and after every Step; a
\* call executed at depth 16 ends the run with "stack overflow", a return
\* executed at depth 0 ends it with "stack underflow", and both leave the
\* stack contents and the depth as they were.
C12_StackBounds ==
  [][StepTaken =>
       /\ cpu.sp \in 0..16
       /\ cpu'.sp \in 0..16
       /\ (Fetched /\ IsCall(Op) /\ cpu.sp = 16) =>
            /\ cpu'.panic = "stack overflow"
            /\ cpu'.stack = cpu.stack
            /\ cpu'.sp = cpu.sp
       /\ (Fetched /\ IsRet(Op) /\ cpu.sp = 0) =>
            /\ cpu'.panic = "stack underflow"
            /\ cpu'.stack = cpu.stack
            /\ cpu'.sp = cpu.sp]_vars

\* A seventeenth nested call: refused, with the sixteen return addresses
\* still on the stack.
C12_Witness ==
  /\ cpu.panic = "stack overflow"
  /\ IsCall(LastOp)
  /\ cpu.sp = 16
  /\ \A j \in 0..15 : cpu.stack[j] > ProgramStartAddress

(***************************************************************************)
(* C13.  Decoding.  One-instruction programs: every word k x nn with x in  *)
(* {0x0, 0xE}, which takes in every kind, every low byte, and the words    *)
(* 00E0, 00EE, 0EE0 and 0EEE.                                              *)
(***************************************************************************)
DecodeWords ==
  { k * 4096 + x * 256 + nn : k \in 0..15, x \in {0, 14}, nn \in 0..(U8 - 1) }

DecodePrograms == { Asm(<< w >>) : w \in DecodeWords }

LoadDecode == CanLoad /\ \E b \in DecodePrograms : DoLoad(b)

NextDecode == LoadDecode \/ DoStep(FALSE)

SpecDecode == Init /\ [][NextDecode]_vars

\* The 35 operations of the instruction set, by their words.
Enumerated(op) ==
  LET k == op \div 4096
      n == op % 16
      nn == op % 256
  IN  \/ op \in {224, 238}
      \/ k \in {1, 2, 3, 4, 6, 7, 10, 11, 12, 13}
      \/ k \in {5, 9} /\ n = 0
      \/ k = 8 /\ n \in (0..7) \cup {14}
      \/ k = 14 /\ nn \in {158, 161}
      \/ k = 15 /\ nn \in {7, 10, 21, 24, 30, 41, 51, 85, 101}

DecodeErrors ==
  { "unknown opcode", "unknown 0x0 opcode", "unknown 0x8 opcode",
    "unknown 0xE opcode", "unknown 0xF opcode" }

\* C13: every Step that fetches a word outside the 35 operations ends the
\* run with a decode error.
C13_DecodeClosed ==
  [][(StepTaken /\ Fetched /\ ~Enumerated(Op)) => cpu'.panic \in DecodeErrors]_vars

(***************************************************************************)
(* C14.  Reset.  A program that fills registers, I, memory, both timers,   *)
(* the stack and the framebuffer, keys going down and up meanwhile, and a  *)
(* Reset at any point of the run.                                          *)
(***************************************************************************)
ResetPrograms ==
  { Asm(<< InsLD(0, v), InsLD(15, 9), InsLDI(768), InsBCD(0), InsSetDelay(0),
           InsSetSound(0), InsCALL(ProgramStartAddress + 14),
           InsDRW(0, 0, 3), InsRET >>) : v \in {7, 255} }

LoadReset == CanLoad /\ \E b \in ResetPrograms : DoLoad(b)

LogKey == \E key \in {3, 31}, value \in BOOLEAN : LogSetKey(key, value)

NextReset == LoadReset \/ DoStep(FALSE) \/ LogKey \/ DoReset

SpecReset == Init /\ [][NextReset]_vars

\* The transition is a call of Reset.
ResetTaken == out'.op = "Reset" /\ steps' = steps /\ loaded' = loaded

\* Memory after Reset: the 16 glyphs at 0x50..0x9F, zero elsewhere.
FontMemory ==
  [a \in 0..(MemorySize - 1) |->
     IF a >= 80 /\ a < 160 THEN fontSet[a - 79] ELSE 0]

\* C14: Reset leaves all registers, I, both timers, the stack depth, every
\* key flag and every framebuffer cell at 0, the glyphs in memory[0x50..0x9F]
\* and 0 in every other byte, and the program counter at 0x200.
C14_ResetState ==
  [][ResetTaken =>
       /\ \A r \in 0..15 : cpu'.v[r] = 0
       /\ cpu'.i = 0
       /\ cpu'.delay = 0
       /\ cpu'.sound = 0
       /\ cpu'.sp = 0
       /\ \A k \in Keys : ~cpu'.keyState[k]
       /\ \A c \in Cells : cpu'.display[c] = 0
       /\ cpu'.memory = FontMemory
       /\ cpu'.pc = 512]_vars

(***************************************************************************)
(* C15.  Write and Read called directly, at start addresses in the middle  *)
(* of memory, just below 0xFFF, at 0xFFF and at the top of the 16-bit      *)
(* range, with buffers of 0..MaxTransfer bytes.                            *)
(***************************************************************************)
MaxTransfer == 3

TransferLocs == { ProgramStartAddress, 4093, 4094, TransferLimit, U16 - 1 }

TransferData(len) == [k \in 1..len |-> 160 + k]

CallWrite == \E loc \in TransferLocs, len \in 0..MaxTransfer :
               DoWrite(loc, TransferData(len))

CallRead == \E loc \in TransferLocs, len \in 0..MaxTransfer : DoRead(loc, len)

NextTransfer == CallWrite \/ CallRead

SpecTransfer == Init /\ [][NextTransfer]_vars

\* min(len, max(0, 0xFFF - loc))
TransferCount(loc, len) ==
  LET room == IF loc < 4095 THEN 4095 - loc ELSE 0
  IN  IF len < room THEN len ELSE room

\* mem with data[1..n] at addresses loc..loc+n-1 and every other byte kept.
RECURSIVE Patched(_, _, _, _)
Patched(mem, loc, data, n) ==
  IF n = 0 THEN mem
  ELSE [Patched(mem, loc, data, n - 1) EXCEPT ![loc + n - 1] = data[n]]

\* C15: a Write or Read at any start address with any buffer does not
\* fault and returns min(L, max(0, 0xFFF - loc)); Write stores the first
\* count bytes of the buffer at loc..loc+count-1 and changes nothing else,
\* Read copies memory[loc..loc+count-1] to the front of the buffer and
\* changes neither the rest of the buffer nor the processor.
C15_Transfer ==
  [][LET loc == out'.loc
         data == out'.data
         n == TransferCount(loc, Len(data))
     IN  /\ out'.op = "Write" =>
              /\ out'.n = n
              /\ loc + n <= 4095 \/ n = 0
              /\ cpu' = [cpu EXCEPT !.memory = Patched(cpu.memory, loc, data, n)]
         /\ out'.op = "Read" =>
              /\ out'.n = n
              /\ loc + n <= 4095 \/ n = 0
              /\ \A k \in 1..Len(data) :
                   data[k] = IF k <= n THEN cpu.memory[loc + k - 1] ELSE 0
              /\ cpu' = cpu]_vars

\* A three-byte Write at 0xFFD stored two bytes and left 0xFFF alone, and a
\* three-byte Read at 0xFFD then returned those two.
C15_Witness ==
  /\ out.op = "Read" /\ out.loc = 4093 /\ out.n = 2
  /\ out.data = << 161, 162, 0 >>
  /\ cpu.memory[4093] = 161 /\ cpu.memory[4094] = 162 /\ cpu.memory[4095] = 0
  /\ cpu.panic = ""

(***************************************************************************)
(* C16, C17.  Jumps.  One family of programs plants an instruction word in *)
(* the last bytes of memory (LD [I],V1 at 0xFFC or 0xFFD) and jumps to     *)
(* 0xFFC..0xFFF; the others jump or call to 0x203, where the bytes of the  *)
(* image read as an instruction, or jump with an offset in V0.             *)
(***************************************************************************)
TailWords == { InsLD(10, 5), InsJP(ProgramStartAddress) }

TailPrograms ==
  { Asm(<< InsLD(0, w \div 256), InsLD(1, w % 256), InsLDI(base), InsStore(1),
           InsJP(target) >>) :
      w \in TailWords, base \in {4092, 4093}, target \in 4092..4095 }

\* The bytes at 0x203..0x204 are 0x12 0x03 (JP 0x203) or 0x6A 0x05.
OddPrograms ==
  { Asm(<< first + 515, second, 768 >>) :
      first \in {4096, 8192}, second \in {18, 106} }
    \cup { Asm(<< InsLD(0, v), InsJPV0(nnn) >>) :
             v \in {1, 2, 255}, nnn \in {516, 4095} }

JumpPrograms == TailPrograms \cup OddPrograms

LoadJump == CanLoad /\ \E b \in JumpPrograms : DoLoad(b)

NextJump == LoadJump \/ DoStep(FALSE)

SpecJump == Init /\ [][NextJump]_vars

\* C16: in a run that began with Reset and Load and has met no fatal
\* condition, every Step starts with an even program counter.
C16_PcEven ==
  [][(StepTaken /\ loaded /\ cpu.panic = "") => cpu.pc % 2 = 0]_vars

\* C17: a Step that starts with PC >= 0xFFE ends the run with "program
\* runaway" and leaves PC, the registers, I, memory, the stack, both timers
\* and the framebuffer as they were; a Step that starts with PC <= 0xFFD
\* fetches the word memory[PC]*256 + memory[PC+1] and is no runaway.
C17_Runaway ==
  [][StepTaken =>
       IF cpu.pc >= 4094
       THEN /\ cpu'.panic = "program runaway"
            /\ cpu'.pc = cpu.pc
            /\ cpu'.v = cpu.v
            /\ cpu'.i = cpu.i
            /\ cpu'.memory = cpu.memory
            /\ cpu'.stack = cpu.stack
            /\ cpu'.sp = cpu.sp
            /\ cpu'.delay = cpu.delay
            /\ cpu'.sound = cpu.sound
            /\ cpu'.display = cpu.display
       ELSE /\ Fetched
            /\ Op = cpu.memory[cpu.pc] * 256 + cpu.memory[cpu.pc + 1]
            /\ cpu'.panic # "program runaway"]_vars

\* LD VA,5 was fetched from 0xFFC..0xFFD and executed, and the next Step,
\* at 0xFFE, was the runaway.
C17_Witness ==
  /\ Len(trace) >= 2
  /\ trace[Len(trace) - 1] = << 4092, InsLD(10, 5) >>
  /\ trace[Len(trace)] = << 4094, -1 >>
  /\ cpu.panic = "program runaway"
  /\ cpu.pc = 4094
  /\ cpu.v[10] = 5

(***************************************************************************)
(* C19.  SetKey called with key codes below and above 16, before the load  *)
(* and between the Steps of the programs of C14, which fill registers, I,  *)
(* memory, timers, stack and framebuffer.                                  *)
(***************************************************************************)
KeyCodes == { 3, 19, 255 }

LogAnyKey == \E key \in KeyCodes, value \in BOOLEAN : LogSetKey(key, value)

NextSetKey == LoadReset \/ DoStep(FALSE) \/ LogAnyKey

SpecSetKey == Init /\ [][NextSetKey]_vars

\* The transition is a call of SetKey.
SetKeyTaken == out'.op = "SetKey" /\ steps' = steps /\ loaded' = loaded

\* C19: SetKey(k, b) sets the key flag k mod 16 to b and changes no other
\* key flag and nothing else of the processor.
C19_SetKeyFrame ==
  [][SetKeyTaken =>
       /\ cpu'.keyState[out'.key % 16] = out'.value
       /\ \A k \in Keys : k # out'.key % 16 => cpu'.keyState[k] = cpu.keyState[k]
       /\ cpu' = [cpu EXCEPT !.keyState = cpu'.keyState]]_vars

\* In the middle of a run SetKey(255, TRUE) has set flag 15, with flag 3
\* down from an earlier call and flag 0 up.
C19_Witness ==
  /\ out.op = "SetKey" /\ out.key = 255 /\ out.value
  /\ loaded /\ steps > 0 /\ cpu.panic = ""
  /\ cpu.keyState[15] /\ cpu.keyState[3] /\ ~cpu.keyState[0]

(***************************************************************************)
(* C20.  The input handlers call SetKey on the UI thread while the loop of *)
(* Run calls Step on its own goroutine (src/emulator.go:60-80, 279-351).   *)
(* The key flags are atomic.Bool: a key-wait Step is taken here one flag   *)
(* load at a time, and SetKey may come between any two loads.  All else a  *)
(* Step does touches no key flag, so it goes with the nearest load.        *)
(***************************************************************************)
\* Steps explored in a run whose key-wait Steps are taken load by load.
MaxScanSteps == 6

ScanPrograms ==
  { Asm(<< InsLD(x, 255), InsKeyWait(x), InsLD(1, 1) >>) : x \in {0, 15} }

LoadScan == CanLoad /\ \E b \in ScanPrograms : DoLoad(b)

\* Step up to the first flag load of pauseUntilKeyPressed: the fetch and
\* pc += 2.
BeginKeyWait ==
  /\ cpu.panic = ""
  /\ ~scan.active
  /\ steps < MaxScanSteps
  /\ Fetched /\ IsKeyWait(Op)
  /\ cpu' = [cpu EXCEPT !.pc = (cpu.pc + 2) % U16]
  /\ scan' = [active |-> TRUE, i |-> 0, op |-> Op]
  /\ UNCHANGED <<info, image, out, loaded, steps, hist, trace, timed, emu>>

\* The load of flag scan.i and, when the loop is over with it, the rest of
\* the Step: the replay, the timer decay and the status mask.
ScanKeyFlag ==
  /\ scan.active
  /\ LET r == KeyScanIteration(cpu, OpX(scan.op), scan.i)
     IN  IF r[2] < KeyCount
         THEN /\ cpu' = r[1]
              /\ scan' = [scan EXCEPT !.i = r[2]]
              /\ UNCHANGED <<info, steps, trace>>
         ELSE \E dt \in DtSet :
                LET since == IF cpu.sinceTimerUpdate + dt >= TimerRate
                             THEN TimerRate ELSE cpu.sinceTimerUpdate + dt
                    p2 == DecayTimers(r[1], since)
                IN  /\ cpu' = p2
                    /\ info' = StatusMask(p2, 0)
                    /\ scan' = NoScan
                    /\ steps' = steps + 1
                    /\ trace' = Append(trace, << (cpu.pc - 2) % U16, scan.op >>)
  /\ UNCHANGED <<image, out, loaded, hist, timed, emu>>

\* A Step on any other instruction.
StepOther ==
  steps < MaxScanSteps /\ ~(Fetched /\ IsKeyWait(Op)) /\ DoStep(FALSE)

HoldKey == \E key \in {3, 15}, value \in BOOLEAN : DoSetKey(key, value)

ExecutionThread == BeginKeyWait \/ ScanKeyFlag \/ StepOther

NextScan == LoadScan \/ BeginKeyWait \/ ScanKeyFlag \/ StepOther \/ HoldKey

SpecScan == Init /\ [][NextScan]_vars

\* The loop of Run calls Step at every tick of its clock for as long as the
\* emulator runs: the execution thread is never held back for ever.
FairSpecScan == SpecScan /\ WF_vars(ExecutionThread)

\* PC is on a key-wait instruction, or the Step executing it is under way.
KeyWaitPending ==
  /\ loaded
  /\ cpu.panic = ""
  /\ scan.active \/ (Fetched /\ IsKeyWait(Op))

\* The last Step was a key-wait and left PC on the instruction after it.
KeyWaitPassed ==
  /\ ~scan.active
  /\ Len(trace) > 0
  /\ IsKeyWait(LastOp)
  /\ cpu.pc = LastPc + 2

\* C20: with SetKey calls coming at any point of a key-wait Step, a Step
\* that is under way returns; and from a state where a key-wait is pending
\* and flag k is set (two Steps short of the explored horizon at the
\* latest), the key-wait completes with PC past it unless flag k is cleared
\* first.
C20_KeyWaitCompletes ==
  /\ scan.active ~> ~scan.active
  /\ \A k \in {3, 15} :
       (KeyWaitPending /\ cpu.keyState[k] /\ steps + 2 <= MaxScanSteps)
         ~> (KeyWaitPassed \/ ~cpu.keyState[k])

\* A key-wait Step that follows a replay is under way, its scan is past
\* flag 3 and has seen no key; SetKey(3, TRUE) has come behind it.
C20_Witness ==
  /\ scan.active
  /\ scan.i > 3
  /\ steps >= 2
  /\ IsKeyWait(LastOp)
  /\ cpu.keyState[3]
  /\ ~cpu.keyState[15]
  /\ cpu.v[OpX(scan.op)] = 255

(***************************************************************************)
(* C21.  The four skip instructions.  LD Vx,a; LD Vy,b and then one of     *)
(* SE Vx,b; SNE Vx,b; SE Vx,Vy; SNE Vx,Vy at 0x204.                         *)
(***************************************************************************)
SkipWords(x, y, b) ==
  { InsSE(x, b), InsSNE(x, b), InsSEV(x, y), InsSNEV(x, y) }

SkipPrograms ==
  UNION { { Asm(<< InsLD(x, a), InsLD(y, b), skip >>) : skip \in SkipWords(x, y, b) } :
            <<x, y, a, b>> \in RegSample \X RegSample \X ByteSample \X ByteSample }

LoadSkip == CanLoad /\ \E b \in SkipPrograms : DoLoad(b)

NextSkip == LoadSkip \/ DoStep(FALSE)

SpecSkip == Init /\ [][NextSkip]_vars

\* Whether the comparison of the skip instruction op holds in processor p.
SkipHolds(p, op) ==
  CASE OpKind(op) = 3 -> p.v[OpX(op)] = OpNN(op)
    [] OpKind(op) = 4 -> p.v[OpX(op)] # OpNN(op)
    [] OpKind(op) = 5 -> p.v[OpX(op)] = p.v[OpY(op)]
    [] OpKind(op) = 9 -> p.v[OpX(op)] # p.v[OpY(op)]

IsSkip(op) == OpKind(op) \in {3, 4} \/ (OpKind(op) \in {5, 9} /\ OpN(op) = 0)

\* C21: a Step that executes 3xnn, 4xnn, 5xy0 or 9xy0 at address A ends
\* with PC = A+4 when the comparison holds and PC = A+2 when it does not,
\* with every register, I, memory, the stack and the framebuffer as before.
C21_Skip ==
  [][(StepTaken /\ Fetched /\ IsSkip(Op)) =>
       /\ cpu'.panic = ""
       /\ cpu'.pc = cpu.pc + (IF SkipHolds(cpu, Op) THEN 4 ELSE 2)
       /\ cpu'.v = cpu.v
       /\ cpu'.i = cpu.i
       /\ cpu'.memory = cpu.memory
       /\ cpu'.stack = cpu.stack
       /\ cpu'.sp = cpu.sp
       /\ cpu'.display = cpu.display]_vars

\* SNE V0,V1 at 0x204 with V0 = 128 and V1 = 127 has skipped to 0x208.
C21_Witness ==
  /\ Stepped
  /\ LastOp = InsSNEV(0, 1)
  /\ LastPc = 516
  /\ cpu.v[0] = 128 /\ cpu.v[1] = 127
  /\ cpu.pc = 520

(***************************************************************************)
(* C22.  OR, AND, XOR on general registers, with VF set beforehand:        *)
(* LD VF,f; LD Vx,a; LD Vy,b; <op> Vx,Vy.                                   *)
(***************************************************************************)
LogicRegs == RegSample \ {CarryFlag}

LogicPrograms ==
  { Asm(<< InsLD(CarryFlag, t[1]), InsLD(t[2], t[4]), InsLD(t[3], t[5]),
           InsALU(t[2], t[3], t[6]) >>) :
      t \in {1, 255} \X LogicRegs \X LogicRegs \X ByteSample \X {15, 170} \X {1, 2, 3} }

LoadLogic == CanLoad /\ \E b \in LogicPrograms : DoLoad(b)

NextLogic == LoadLogic \/ DoStep(FALSE)

SpecLogic == Init /\ [][NextLogic]_vars

\* Bit k of the result of sub-opcode n (1 OR, 2 AND, 3 XOR) on bits s, t.
LogicBit(n, s, t) ==
  CASE n = 1 -> IF s + t >= 1 THEN 1 ELSE 0
    [] n = 2 -> IF s + t = 2 THEN 1 ELSE 0
    [] n = 3 -> IF s + t = 1 THEN 1 ELSE 0

\* C22: a Step that executes 8xy1, 8xy2 or 8xy3 with x, y in 0x0..0xE
\* leaves in Vx the bitwise OR, AND, XOR of the Vx and Vy it found, and
\* VF = 0.
C22_Logic ==
  [][(Ran /\ OpKind(Op) = 8 /\ OpN(Op) \in {1, 2, 3}
          /\ OpX(Op) < CarryFlag /\ OpY(Op) < CarryFlag) =>
       /\ cpu'.v[OpX(Op)] \in 0..255
       /\ \A k \in 0..7 :
            Bit(cpu'.v[OpX(Op)], k) =
              LogicBit(OpN(Op), Bit(cpu.v[OpX(Op)], k), Bit(cpu.v[OpY(Op)], k))
       /\ cpu'.v[CarryFlag] = 0]_vars

\* XOR V0,V1 with V0 = 127, V1 = 170 and VF = 255 before it: V0 = 213 and
\* VF = 0 after it.
C22_Witness ==
  /\ Stepped
  /\ Len(trace) = 4
  /\ trace[1][2] = InsLD(CarryFlag, 255)
  /\ trace[2][2] = InsLD(0, 127)
  /\ LastOp = InsALU(0, 1, 3)
  /\ cpu.v[1] = 170
  /\ cpu.v[0] = 213
  /\ cpu.v[CarryFlag] = 0

(***************************************************************************)
(* C23.  SHR and SHL of every byte value: LD Vy,b; LD Vx,a; <shift> Vx,Vy. *)
(***************************************************************************)
ShiftPrograms ==
  { Asm(<< InsLD(t[2], 85), InsLD(t[1], t[3]), InsALU(t[1], t[2], t[4]) >>) :
      t \in {0, 14} \X {1, 14} \X (0..(U8 - 1)) \X {6, 14} }

LoadShift == CanLoad /\ \E b \in ShiftPrograms : DoLoad(b)

NextShift == LoadShift \/ DoStep(FALSE)

SpecShift == Init /\ [][NextShift]_vars

\* C23: a Step that executes 8xy6 or 8xyE with x # 0xF and Vx = a leaves
\* Vx = a div 2 and VF = a mod 2 (8xy6), Vx = 2a mod 256 and VF = bit 7 of
\* a (8xyE), and every register other than Vx and VF, Vy included, as it
\* was.
C23_Shift ==
  [][(Ran /\ OpKind(Op) = 8 /\ OpN(Op) \in {6, 14} /\ OpX(Op) # CarryFlag) =>
       LET a == cpu.v[OpX(Op)]
       IN  /\ OpN(Op) = 6 =>
                cpu'.v[OpX(Op)] = a \div 2 /\ cpu'.v[CarryFlag] = a % 2
           /\ OpN(Op) = 14 =>
                cpu'.v[OpX(Op)] = (2 * a) % 256 /\ cpu'.v[CarryFlag] = a \div 128
           /\ \A r \in 0..(RegisterCount - 1) :
                (r # OpX(Op) /\ r # CarryFlag) => cpu'.v[r] = cpu.v[r]]_vars

\* SHL V0,V1 of 0xC1 with V1 = 0x55: V0 = 0x82, VF = 1, V1 = 0x55.
C23_Witness ==
  /\ Stepped
  /\ LastOp = InsALU(0, 1, 14)
  /\ trace[Len(trace) - 1][2] = InsLD(0, 193)
  /\ cpu.v[0] = 130
  /\ cpu.v[CarryFlag] = 1
  /\ cpu.v[1] = 85

(***************************************************************************)
(* C24.  Where a draw puts its pixels, on the programs of C6 and C7.       *)
(***************************************************************************)
\* The sprite bit that a draw of n rows from address i with origin (ox, oy)
\* lays on cell (cx, cy) of the 64 x 32 grid: bit 7-c of row r for the cell
\* at (ox+c, oy+r), 0 for a cell outside the 8 x n box.
SpriteBit(p, ox, oy, n, cx, cy) ==
  IF cx < ox \/ cx > ox + 7 \/ cy < oy \/ cy >= oy + n THEN 0
  ELSE Bit(p.memory[p.i + (cy - oy)], 7 - (cx - ox))

\* C24: a draw that runs to its end XORs onto every cell (cx, cy) the sprite
\* bit for origin (Vx mod 64, Vy mod 32), so that nothing is drawn past the
\* right or bottom edge and nothing wraps to the left or top, and leaves
\* VF = 1 if some cell went from 1 to 0, VF = 0 otherwise.
C24_DrawPlacement ==
  [][(Ran /\ IsDraw(Op)) =>
       LET ox == cpu.v[OpX(Op)] % Width
           oy == cpu.v[OpY(Op)] % Height
           n == OpN(Op)
       IN  /\ \A c \in Cells :
                cpu'.display[c] =
                  (cpu.display[c]
                     + SpriteBit(cpu, ox, oy, n, c % Width, c \div Width)) % 2
           /\ cpu'.v[CarryFlag] =
                Flag(\E c \in Cells : cpu.display[c] = 1 /\ cpu'.display[c] = 0)]_vars

\* A five-row glyph drawn on a clear screen with Vx = 255 and Vy = 29: the
\* origin is (63, 29), and of the sprite only column 0 of rows 0..2 is on
\* the screen.
C24_Witness ==
  /\ Stepped
  /\ IsDraw(LastOp)
  /\ OpN(LastOp) = 5
  /\ hist[1].v[OpX(LastOp)] = 255
  /\ hist[1].v[OpY(LastOp)] = 29
  /\ hist[1].i = FontStartAddress
  /\ hist[1].display = ZeroDisplay
  /\ {c \in Cells : cpu.display[c] = 1} = {1919, 1983, 2047}

(***************************************************************************)
(* C25.  Store and load of the register block.  Every register is loaded   *)
(* with a value of its own (V0 = 1, V1 = 18, ... VF = 0), I is set in the  *)
(* font, on the program, or in the last bytes of memory, and Fx55 or Fx65  *)
(* follows, for every x.                                                   *)
(***************************************************************************)
BlockAddresses ==
  { FontStartAddress, ProgramStartAddress, MemorySize - 16, MemorySize - 8,
    MemorySize - 1 }

FillRegisters == [r \in 1..RegisterCount |-> InsLD(r - 1, (17 * (r - 1) + 1) % U8)]

BlockPrograms ==
  { Asm(FillRegisters \o << InsLDI(addr), ins >>) :
      <<addr, ins>> \in
        UNION { { <<addr, InsStore(x)>>, <<addr, InsRestore(x)>> } :
                  <<addr, x>> \in BlockAddresses \X (0..(RegisterCount - 1)) } }

LoadBlock == CanLoad /\ \E b \in BlockPrograms : DoLoad(b)

NextBlock == LoadBlock \/ DoStep(FALSE)

SpecBlock == Init /\ [][NextBlock]_vars

IsStore(op) == OpKind(op) = 15 /\ OpNN(op) = 85
IsRestore(op) == OpKind(op) = 15 /\ OpNN(op) = 101

\* What the block instructions leave when they have copied x+1 bytes.
BlockCopied ==
  LET x == OpX(Op)
  IN  /\ IsStore(Op) =>
           /\ cpu'.memory =
                Patched(cpu.memory, cpu.i, [k \in 1..(x + 1) |-> cpu.v[k - 1]], x + 1)
           /\ cpu'.v = cpu.v
      /\ IsRestore(Op) =>
           /\ \A r \in 0..(RegisterCount - 1) :
                cpu'.v[r] = IF r <= x THEN cpu.memory[cpu.i + r] ELSE cpu.v[r]
           /\ cpu'.memory = cpu.memory

\* C25: for every x, a Step that executes Fx55 copies V0..Vx to
\* memory[I..I+x] and changes no other byte of memory; a Step that executes
\* Fx65 copies memory[I..I+x] to V0..Vx and changes no other register.
C25_BlockCopy ==
  [][(StepTaken /\ Fetched /\ (IsStore(Op) \/ IsRestore(Op))) =>
       (cpu'.panic = "" /\ BlockCopied)]_vars

(***************************************************************************)
(* C26.  The key skips.  LD Vx,a; SKP Vx or SKNP Vx for every byte a,      *)
(* while the input handlers set and clear keys 3 and 0xF.                  *)
(***************************************************************************)
KeySkipPrograms ==
  UNION { { Asm(<< InsLD(x, a), InsSKP(x) >>), Asm(<< InsLD(x, a), InsSKNP(x) >>) } :
            <<x, a>> \in {0, CarryFlag} \X (0..(U8 - 1)) }

LoadKeySkip == CanLoad /\ \E b \in KeySkipPrograms : DoLoad(b)

NextKeySkip == LoadKeySkip \/ DoStep(FALSE) \/ HoldKey

SpecKeySkip == Init /\ [][NextKeySkip]_vars

IsKeySkip(op) == OpKind(op) = 14 /\ OpNN(op) \in {158, 161}

\* C26: a Step that executes Ex9E ends with PC advanced by 4 if key
\* Vx mod 16 is set and by 2 if it is not; a Step that executes ExA1 the
\* other way round; neither changes a key flag or a register.
C26_KeySkip ==
  [][(StepTaken /\ Fetched /\ IsKeySkip(Op)) =>
       LET set == cpu.keyState[cpu.v[OpX(Op)] % 16]
           skips == IF OpNN(Op) = 158 THEN set ELSE ~set
       IN  /\ cpu'.panic = ""
           /\ cpu'.pc = cpu.pc + (IF skips THEN 4 ELSE 2)
           /\ cpu'.keyState = cpu.keyState
           /\ cpu'.v = cpu.v]_vars

\* SKP V0 with V0 = 0xF3 and key 3 down, key 0xF up, has skipped.
C26_Witness ==
  /\ Stepped
  /\ LastOp = InsSKP(0)
  /\ cpu.v[0] = 243
  /\ cpu.keyState[3]
  /\ ~cpu.keyState[15]
  /\ cpu.pc = LastPc + 4

(***************************************************************************)
(* C27.  The framebuffer.  Programs draw a glyph and then execute one      *)
(* instruction word of every kind and sub-opcode, enumerated or not; key   *)
(* 3 goes down and up meanwhile, and Processor.Load writes the image       *)
(* again, once, at any point of the run.                                   *)
(***************************************************************************)
\* Steps explored in these runs: the program twice over.
MaxFrameSteps == 6

FrameLowBytes ==
  (0..15) \cup { 21, 24, 30, 41, 51, 85, 101, 158, 161, 224, 238 }

FrameWords == { k * 4096 + nn : k \in 0..15, nn \in FrameLowBytes }

FramePrograms ==
  { Asm(<< InsLDI(FontStartAddress + 5), InsDRW(0, 0, 5), w >>) : w \in FrameWords }

LoadFrame == CanLoad /\ \E b \in FramePrograms : DoLoad(b)

LoadAgain == loaded /\ out.op = "" /\ DoProcessorLoad(image)

FrameStep == steps < MaxFrameSteps /\ DoStep(FALSE)

FrameKey == \E value \in BOOLEAN : DoSetKey(3, value)

NextFrame == LoadFrame \/ FrameStep \/ FrameKey \/ LoadAgain

SpecFrame == Init /\ [][NextFrame]_vars

\* The framebuffer is 2048 cells of 0 or 1.
FrameShape ==
  /\ DOMAIN cpu.display = Cells
  /\ Cardinality(DOMAIN cpu.display) = 2048
  /\ \A c \in Cells : cpu.display[c] \in {0, 1}

\* C27: the framebuffer always has 2048 cells holding 0 or 1, and the only
\* transitions that change a cell are Steps that execute clear-screen or
\* draw-sprite: Processor.Load, SetKey and a Step on any other instruction
\* leave it as it was.
C27_Framebuffer ==
  /\ []FrameShape
  /\ [][cpu'.display # cpu.display =>
          (StepTaken /\ Fetched /\ (Op = InsCLS \/ IsDraw(Op)))]_vars

\* The glyph of 1 is on the screen, a store of V0 has run since it was drawn,
\* key 3 is down, and Processor.Load has just written the image again.
C27_Witness ==
  /\ out.op = "Load"
  /\ cpu.pc = ProgramStartAddress
  /\ Len(trace) = 3
  /\ LastOp = InsStore(0)
  /\ cpu.keyState[3]
  /\ cpu.display[0] = 0
  /\ cpu.display[2] = 1
  /\ Cardinality({c \in Cells : cpu.display[c] = 1}) = 8
  /\ cpu.panic = ""

(***************************************************************************)
(* C28.  Jump and jump with offset, on the programs of C16 and C17.        *)
(***************************************************************************)
IsJump(op) == OpKind(op) = 1
IsJumpOffset(op) == OpKind(op) = 11

\* C28: a Step that executes 1nnn ends with PC = nnn, a Step that executes
\* Bnnn with PC = nnn + V0, the sum not wrapped; both leave the stack, the
\* registers and I as they were; and the Step after a jump that ended with
\* PC >= 0xFFE is the "program runaway", with PC where the jump left it.
C28_Jump ==
  [][StepTaken =>
       /\ (Fetched /\ (IsJump(Op) \/ IsJumpOffset(Op))) =>
            /\ cpu'.panic = ""
            /\ cpu'.pc = OpNNN(Op) + (IF IsJumpOffset(Op) THEN cpu.v[0] ELSE 0)
            /\ cpu'.stack = cpu.stack
            /\ cpu'.sp = cpu.sp
            /\ cpu'.v = cpu.v
            /\ cpu'.i = cpu.i
       /\ (Stepped /\ (IsJump(LastOp) \/ IsJumpOffset(LastOp)) /\ cpu.pc >= 4094) =>
            /\ cpu'.panic = "program runaway"
            /\ cpu'.pc = cpu.pc]_vars

\* JP V0,0xFFF with V0 = 255 left PC = 0x10FE, and the next Step was the
\* runaway.
C28_Witness ==
  /\ Len(trace) = 3
  /\ trace[2] = << 514, InsJPV0(4095) >>
  /\ trace[3] = << 4350, -1 >>
  /\ cpu.v[0] = 255
  /\ cpu.pc = 4350
  /\ cpu.panic = "program runaway"

(***************************************************************************)
(* C29.  The font lookup: LD Vx,a; LD F,Vx for every byte a.               *)
(***************************************************************************)
FontPrograms ==
  { Asm(<< InsLD(t[1], t[2]), InsFont(t[1]) >>) :
      t \in {0, CarryFlag} \X (0..(U8 - 1)) }

LoadFont == CanLoad /\ \E b \in FontPrograms : DoLoad(b)

NextFont == LoadFont \/ DoStep(FALSE)

SpecFont == Init /\ [][NextFont]_vars

IsFont(op) == OpKind(op) = 15 /\ OpNN(op) = 41

\* C29: in a run that began with Reset and Load, a Step that executes Fx29
\* leaves I = 0x50 + (Vx mod 16)*5, an address of the font region
\* 0x50..0x9F at which memory holds the five rows of the glyph of digit
\* Vx mod 16 of the font table.
C29_FontAddress ==
  [][(Ran /\ loaded /\ IsFont(Op)) =>
       LET digit == cpu.v[OpX(Op)] % 16
       IN  /\ cpu'.i = 80 + digit * 5
           /\ cpu'.i >= 80 /\ cpu'.i + 4 <= 159
           /\ \A r \in 0..4 : cpu'.memory[cpu'.i + r] = fontSet[digit * 5 + r + 1]]_vars

\* LD F,V0 with V0 = 0xAB: I = 0x87, the glyph of B.
C29_Witness ==
  /\ Stepped
  /\ loaded
  /\ LastOp = InsFont(0)
  /\ cpu.v[0] = 171
  /\ cpu.i = 135
  /\ << cpu.memory[135], cpu.memory[136], cpu.memory[139] >> = << 224, 144, 224 >>

(***************************************************************************)
(* C30.  The timer decay of a Step.  Programs                              *)
(*   LD V0, v; LD V1, w; LD DT, V0; LD ST, V1; <slot>; LD V2, 0; LD V2, 0  *)
(* run against a clock that lets nothing, half an interval, an interval    *)
(* or two intervals pass before each Step, with Reset, Load, SetKey and    *)
(* Write called between the Steps.                                         *)
(***************************************************************************)
DecaySet == {0, TimerRate \div 2, TimerRate, 2 * TimerRate}

DecayValues == {1, 2}

DecaySlots == { InsGetDelay(2), InsSetDelay(1), InsSetSound(0), InsCLS }

DecayPrograms ==
  { Asm(<< InsLD(0, t[1]), InsLD(1, t[2]), InsSetDelay(0), InsSetSound(1), t[3],
           InsLD(2, 0), InsLD(2, 0) >>) :
      t \in DecayValues \X DecayValues \X DecaySlots }

LoadDecay == CanLoad /\ \E b \in DecayPrograms : DoLoad(b)

\* Steps explored in a run of the decay programs.
MaxDecaySteps == 7

DecayStep == steps < MaxDecaySteps /\ StepOver(FALSE, "dt", DecaySet)

\* The calls the window thread and the host make between two Steps.
DecayHost ==
  /\ loaded
  /\ out.op = ""
  /\ \/ DoReset
     \/ DoProcessorLoad(image)
     \/ DoWrite(ProgramStartAddress + 12, <<96, 1>>)
     \/ DoSetKey(3, ~cpu.keyState[3])

NextDecay == LoadDecay \/ DecayStep \/ DecayHost

SpecDecay == Init /\ [][NextDecay]_vars

IsSetDelay(op) == OpKind(op) = 15 /\ OpNN(op) = 21
IsSetSound(op) == OpKind(op) = 15 /\ OpNN(op) = 24
IsGetDelay(op) == OpKind(op) = 15 /\ OpNN(op) = 7

\* A timer after the decay.
Decayed(t) == IF t > 0 THEN t - 1 ELSE 0

\* C30: a Step that returns reads and writes the timers at dispatch first
\* (Fx07 sees the delay timer as it was before the Step, Fx15 and Fx18 write
\* Vx) and decays afterwards, once: when the time since the last decay,
\* measured at this Step, is at least 1/60 s, each timer ends one below its
\* value after dispatch, or at zero if it was zero, and the time since the
\* last decay restarts at zero, however many intervals have passed;
\* otherwise both timers keep their value after dispatch.  A transition
\* that is no Step changes a timer only if it is Reset, which zeroes both.
C30_TimerDecay ==
  [][/\ Ran =>
          LET d == IF IsSetDelay(Op) THEN cpu.v[OpX(Op)] ELSE cpu.delay
              s == IF IsSetSound(Op) THEN cpu.v[OpX(Op)] ELSE cpu.sound
              elapsed == cpu.sinceTimerUpdate + timed'.dt
          IN  /\ IsGetDelay(Op) => cpu'.v[OpX(Op)] = cpu.delay
              /\ IF elapsed >= TimerRate
                 THEN /\ cpu'.delay = Decayed(d)
                      /\ cpu'.sound = Decayed(s)
                      /\ cpu'.sinceTimerUpdate = 0
                 ELSE /\ cpu'.delay = d
                      /\ cpu'.sound = s
                      /\ cpu'.sinceTimerUpdate = elapsed
     /\ (~StepTaken /\ << cpu'.delay, cpu'.sound >> # << cpu.delay, cpu.sound >>) =>
          /\ out'.op = "Reset"
          /\ cpu'.delay = 0
          /\ cpu'.sound = 0]_vars

\* LD V2,DT two intervals after the last decay, both timers at 2: V2 reads
\* 2, and the Step leaves both timers at 1.
C30_Witness ==
  /\ Stepped
  /\ LastOp = InsGetDelay(2)
  /\ timed.dt = 2 * TimerRate
  /\ cpu.v[0] = 2
  /\ cpu.v[1] = 2
  /\ cpu.v[2] = 2
  /\ cpu.delay = 1
  /\ cpu.sound = 1
  /\ cpu.sinceTimerUpdate = 0

(***************************************************************************)
(* C31.  Random: LD V1,0xAA; LD VF,0x55; RND Vx,nn for every mask nn.      *)
(***************************************************************************)
RandomPrograms ==
  { Asm(<< InsLD(1, 170), InsLD(CarryFlag, 85), InsRND(t[1], t[2]) >>) :
      t \in {0, 1, CarryFlag} \X (0..(U8 - 1)) }

LoadRandom == CanLoad /\ \E b \in RandomPrograms : DoLoad(b)

NextRandom == LoadRandom \/ DoStep(FALSE)

SpecRandom == Init /\ [][NextRandom]_vars

IsRandom(op) == OpKind(op) = 12

\* C31: a Step that executes Cxnn leaves in Vx a byte with no bit set
\* outside nn, every other register (VF too when x is not 0xF), memory, I,
\* the stack and the framebuffer as they were, and PC two past the
\* instruction.
C31_Random ==
  [][(StepTaken /\ Fetched /\ IsRandom(Op)) =>
       /\ cpu'.panic = ""
       /\ cpu'.v[OpX(Op)] \in 0..255
       /\ BitAnd(cpu'.v[OpX(Op)], 255 - OpNN(Op)) = 0
       /\ \A r \in 0..(RegisterCount - 1) : r # OpX(Op) => cpu'.v[r] = cpu.v[r]
       /\ cpu'.memory = cpu.memory
       /\ cpu'.pc = cpu.pc + 2
       /\ cpu'.i = cpu.i
       /\ cpu'.stack = cpu.stack
       /\ cpu'.sp = cpu.sp
       /\ cpu'.display = cpu.display]_vars

\* RND V0,0x3C with a random byte that has all of those bits: V0 = 0x3C,
\* V1 and VF keep what the program gave them.
C31_Witness ==
  /\ Stepped
  /\ LastOp = InsRND(0, 60)
  /\ cpu.v[0] = 60
  /\ cpu.v[1] = 170
  /\ cpu.v[CarryFlag] = 85
  /\ cpu.pc = ProgramStartAddress + 6

(***************************************************************************)
(* C32.  Determinism of Step.  One program that loads registers, sets the  *)
(* delay timer, adds, converts to decimal, stores, draws, calls and        *)
(* returns, tests and awaits a key, draws a random byte, reads the timer   *)
(* and clears the screen, run against the clock of C30 with key 3 pressed  *)
(* and released between the Steps.                                         *)
(***************************************************************************)
DetermPrograms ==
  { Asm(<< InsLD(0, a), InsLD(1, 3), InsSetDelay(0), InsALU(0, 1, 4),
           InsLDI(768), InsBCD(0), InsStore(1), InsDRW(0, 1, 2),
           InsCALL(ProgramStartAddress + 28), InsSKP(1), InsKeyWait(2),
           InsRND(3, 255), InsGetDelay(4), InsCLS, InsRET >>) : a \in {3} }

LoadDeterm == CanLoad /\ \E b \in DetermPrograms : DoLoad(b)

\* Steps explored in a run of the program.
MaxDetermSteps == 17

DetermStep == steps < MaxDetermSteps /\ StepOver(FALSE, "dt", DecaySet)

DetermKey == loaded /\ DoSetKey(3, ~cpu.keyState[3])

NextDeterm == LoadDeterm \/ DetermStep \/ DetermKey

SpecDeterm == Init /\ [][NextDeterm]_vars

\* What the two processors are compared on: everything but the timestamp of
\* the last decay.
Observable(p) == [p EXCEPT !.sinceTimerUpdate = 0]

SinceSet == {0, TimerRate \div 2, TimerRate}

\* C32: take any Step on an instruction other than Cxnn.  A second
\* processor with the same memory, registers, I, PC, stack, timers,
\* framebuffer and key flags, whatever its time since the last decay, the
\* time passed before its Step and the random byte it would draw, for which
\* "an interval has elapsed" has the same truth value, ends its Step in the
\* same state with the same status mask.
C32_Deterministic ==
  [][(StepTaken /\ ~(Fetched /\ IsRandom(Op))) =>
       \A s2 \in SinceSet, dt2 \in DecaySet, rb2 \in ByteSample :
         ((s2 + dt2 >= TimerRate) <=> (cpu.sinceTimerUpdate + timed'.dt >= TimerRate)) =>
           LET r == Step([cpu EXCEPT !.sinceTimerUpdate = s2], dt2, rb2)
           IN  /\ Observable(r[1]) = Observable(cpu')
               /\ r[2] = info']_vars

\* The read of the delay timer, two intervals after the last decay, in a
\* run whose key-wait stored key 3.
C32_Witness ==
  /\ Stepped
  /\ LastOp = InsGetDelay(4)
  /\ timed.dt = 2 * TimerRate
  /\ cpu.v[2] = 3
  /\ cpu.v[4] > 0
  /\ cpu.delay = cpu.v[4] - 1

(***************************************************************************)
(* The driver (src/emulator.go, src/audio.go).  The loop of Run is taken   *)
(* in four steps, one per access to a flag that the window thread writes:  *)
(* the load of paused, the load of next, the store to next, and the rest   *)
(* of the iteration, which only the loop's own thread takes part in.       *)
(***************************************************************************)
\* Opcode.String that takes 5xyN and 9xyN with N other than 0 for unknown.
OpcodeString_StrictSkips(op) ==
  IF OpKind(op) \in {5, 9} /\ OpN(op) # 0 THEN << "unknown opcode", "" >>
  ELSE IF OpKind(op) = 5 THEN << "", "SE" >>
  ELSE IF OpKind(op) = 9 THEN << "", "SNE" >>
  ELSE IF OpKind(op) = 0 /\ op \notin {224, 238} THEN << "unknown 0x0 opcode", "" >>
  ELSE IF OpKind(op) = 8 /\ OpN(op) \notin {0, 1, 2, 3, 4, 5, 6, 7, 14}
       THEN << "unknown 0x8 opcode", "" >>
  ELSE IF OpKind(op) = 14 /\ OpNN(op) \notin {158, 161} THEN << "unknown 0xE opcode", "" >>
  ELSE IF OpKind(op) = 15 /\ OpNN(op) \notin {7, 10, 21, 24, 30, 41, 51, 85, 101}
       THEN << "unknown 0xF opcode", "" >>
  ELSE << "", "?" >>

\* Opcode.String: <<panic message, mnemonic>>; the operands are left out.
OpcodeString(op) ==
  LET kind == OpKind(op)
  IN  CASE kind = 0 ->
             (CASE op = 224 -> << "", "CLS" >>
                [] op = 238 -> << "", "RET" >>
                [] OTHER -> << "unknown 0x0 opcode", "" >>)
        [] kind = 1 -> << "", "JP" >>
        [] kind = 2 -> << "", "CALL" >>
        [] kind = 3 -> << "", "SE" >>
        [] kind = 4 -> << "", "SNE" >>
        [] kind = 5 -> << "", "SE" >>
        [] kind = 6 -> << "", "LD" >>
        [] kind = 7 -> << "", "ADD" >>
        [] kind = 8 ->
             (CASE OpN(op) = 0 -> << "", "LD" >>
                [] OpN(op) = 1 -> << "", "OR" >>
                [] OpN(op) = 2 -> << "", "AND" >>
                [] OpN(op) = 3 -> << "", "XOR" >>
                [] OpN(op) = 4 -> << "", "ADD" >>
                [] OpN(op) = 5 -> << "", "SUB" >>
                [] OpN(op) = 6 -> << "", "SHR" >>
                [] OpN(op) = 7 -> << "", "SUBN" >>
                [] OpN(op) = 14 -> << "", "SHL" >>
                [] OTHER -> << "unknown 0x8 opcode", "" >>)
        [] kind = 9 -> << "", "SNE" >>
        [] kind = 10 -> << "", "LD I" >>
        [] kind = 11 -> << "", "JP V0" >>
        [] kind = 12 -> << "", "RND" >>
        [] kind = 13 -> << "", "DRW" >>
        [] kind = 14 ->
             (CASE OpNN(op) = 158 -> << "", "SKP" >>
                [] OpNN(op) = 161 -> << "", "SKNP" >>
                [] OTHER -> << "unknown 0xE opcode", "" >>)
        [] kind = 15 ->
             (CASE OpNN(op) = 7 -> << "", "LD Vx, DT" >>
                [] OpNN(op) = 10 -> << "", "LD Vx, K" >>
                [] OpNN(op) = 21 -> << "", "LD DT" >>
                [] OpNN(op) = 24 -> << "", "LD ST" >>
                [] OpNN(op) = 30 -> << "", "ADD I" >>
                [] OpNN(op) = 41 -> << "", "LD F" >>
                [] OpNN(op) = 51 -> << "", "LD B" >>
                [] OpNN(op) = 85 -> << "", "LD [I]" >>
                [] OpNN(op) = 101 -> << "", "LD Vx, [I]" >>
                [] OTHER -> << "unknown 0xF opcode", "" >>)
        [] OTHER -> << "unknown opcode", "" >>

\* Beep.Start that turns the tone off when it is already on.
BeepStart_Toggle(beeping) == ~beeping

\* Beep.Start and Beep.Stop, on the beeping flag.
BeepStart(beeping) == IF beeping THEN beeping ELSE TRUE

BeepStop(beeping) == IF ~beeping THEN beeping ELSE FALSE

\* The redraw loop that paints the lit cells only.
RECURSIVE DrawCells_LitOnly(_, _, _, _)
DrawCells_LitOnly(buffer, display, i, n) ==
  IF n = 0 THEN buffer
  ELSE LET pt == << i % Width, i \div Width >>
           set == IF display[i] = 1 THEN [buffer EXCEPT ![pt] = "green"]
                  ELSE [buffer EXCEPT ![pt] = IF @ = "clear" THEN "black" ELSE @]
       IN  IF set[pt] = "clear" THEN buffer
           ELSE DrawCells_LitOnly(set, display, i + 1, n - 1)

\* n iterations of the redraw loop of Run, from cell i on:
\* buffer.Set(i % Width, i / Width, c) with c green for a cell that is 1 and
\* black for any other.
RECURSIVE DrawCells(_, _, _, _)
DrawCells(buffer, display, i, n) ==
  IF n = 0 THEN buffer
  ELSE LET pt == << i % Width, i \div Width >>
           c == IF display[i] = 1 THEN "green" ELSE "black"
           set == [buffer EXCEPT ![pt] = c]
       IN  \* the test has the buffer evaluated before the loop goes on
           IF set[pt] # c THEN buffer
           ELSE DrawCells(set, display, i + 1, n - 1)

\* The redraw loop of Run from cell i to the last cell of Display(), taken
\* Width iterations at a time.
RECURSIVE DrawBuffer(_, _, _)
DrawBuffer(buffer, display, i) ==
  IF i >= Area THEN buffer
  ELSE LET drawn == DrawCells(buffer, display, i, Width)
       IN  \* the test has the buffer evaluated before the loop goes on
           IF drawn[<< 0, i \div Width >>] = "clear" THEN buffer
           ELSE DrawBuffer(drawn, display, i + Width)

\* Steps explored in a run of the driver.
MaxDriverSteps == 8

\* Run up to the start of its loop: the back-buffer is made, running is set.
StartRun ==
  /\ loaded
  /\ emu.at = "off"
  /\ emu' = [emu EXCEPT !.running = TRUE, !.buffer = NewRGBA, !.at = "tick"]
  /\ UNCHANGED <<cpu, info, image, out, loaded, steps, hist, trace, timed, scan>>

\* A tick: the loads of running and of paused.
RunTick ==
  /\ emu.at = "tick"
  /\ cpu.panic = ""
  /\ emu' = IF ~emu.running THEN [emu EXCEPT !.beeping = BeepStop(emu.beeping), !.at = "done"]
            ELSE IF emu.paused THEN [emu EXCEPT !.at = "gate"]
            ELSE [emu EXCEPT !.at = "body"]
  /\ UNCHANGED <<cpu, info, image, out, loaded, steps, hist, trace, timed, scan>>

\* Paused: the load of next.
RunGate ==
  /\ emu.at = "gate"
  /\ emu' = IF ~emu.next THEN [emu EXCEPT !.at = "tick"] ELSE [emu EXCEPT !.at = "clear"]
  /\ UNCHANGED <<cpu, info, image, out, loaded, steps, hist, trace, timed, scan>>

\* Paused with a step request: the store to next.
RunClear ==
  /\ emu.at = "clear"
  /\ emu' = [emu EXCEPT !.next = FALSE, !.at = "single"]
  /\ UNCHANGED <<cpu, info, image, out, loaded, steps, hist, trace, timed, scan>>

\* The rest of the iteration: disassemble, Step, start or stop the tone,
\* redraw.  The loop stands at "single" when it comes here through the
\* pause test with a step request, at "body" when it found no pause.
RunBody ==
  /\ emu.at \in {"body", "single"}
  /\ cpu.panic = ""
  /\ steps < MaxDriverSteps
  /\ \E dt \in DtSet, randomByte \in RandomSet(cpu) :
       LET f == OpcodeAt(cpu, cpu.pc)
           text == OpcodeString(f[2])
           r == Step(cpu, dt, randomByte)
           fatal == IF f[1] < 2 THEN "program runaway" ELSE text[1]
       IN  IF fatal # ""
           THEN /\ cpu' = Panic(cpu, fatal)
                /\ UNCHANGED <<info, steps, trace>>
                /\ emu' = [emu EXCEPT !.at = "tick"]
           ELSE /\ cpu' = r[1]
                /\ info' = r[2]
                /\ steps' = steps + 1
                /\ trace' = Append(trace, <<cpu.pc, f[2]>>)
                /\ emu' = IF r[1].panic # "" THEN [emu EXCEPT !.at = "tick"]
                          ELSE [emu EXCEPT
                                  !.beeping = IF (r[2] \div Sound) % 2 = 1
                                              THEN BeepStart(emu.beeping)
                                              ELSE BeepStop(emu.beeping),
                                  !.buffer = IF (r[2] \div Redraw) % 2 = 1
                                             THEN DrawBuffer(emu.buffer, r[1].display, 0)
                                             ELSE emu.buffer,
                                  !.ran = IF emu.at = "single" /\ emu.ran < 2
                                          THEN emu.ran + 1 ELSE emu.ran,
                                  !.at = "tick"]
  /\ UNCHANGED <<image, out, loaded, hist, timed, scan>>

\* The window is closed: ShowAndRun returns and Run clears running.
CloseWindow ==
  /\ emu.at \in {"tick", "gate", "clear", "single", "body"}
  /\ emu.running
  /\ emu' = [emu EXCEPT !.running = FALSE]
  /\ UNCHANGED <<cpu, info, image, out, loaded, steps, hist, trace, timed, scan>>

\* The pause and play actions of the toolbar, and the P key.  A pause that
\* begins starts the counts of the Steps and step requests made since.
SetPaused(value) ==
  /\ emu.at \in {"tick", "gate", "clear", "single", "body"}
  /\ emu' = IF value /\ ~emu.paused
            THEN [emu EXCEPT !.paused = TRUE, !.asked = 0, !.ran = 0]
            ELSE [emu EXCEPT !.paused = value]
  /\ UNCHANGED <<cpu, info, image, out, loaded, steps, hist, trace, timed, scan>>

ToolbarPlay == emu.paused /\ SetPaused(FALSE)

ToolbarPause == ~emu.paused /\ SetPaused(TRUE)

KeyP == SetPaused(~emu.paused)

\* The next action of the toolbar, and the N key.
RequestNext ==
  /\ emu.at \in {"tick", "gate", "clear", "single", "body"}
  /\ emu' = [emu EXCEPT !.next = TRUE,
                        !.asked = IF emu.paused /\ emu.asked < 2 THEN emu.asked + 1 ELSE emu.asked]
  /\ UNCHANGED <<cpu, info, image, out, loaded, steps, hist, trace, timed, scan>>

(***************************************************************************)
(* C33.  The tone.  Programs LD V0,s; LD ST,V0; LD I,0x50; DRW V1,V1,2;    *)
(* LD V2,0; CLS; JP to itself, run by the driver.                          *)
(***************************************************************************)
DriverPrograms ==
  { Asm(<< InsLD(0, s), InsSetSound(0), InsLDI(FontStartAddress), InsDRW(1, 1, 2),
           InsLD(2, 0), InsCLS, InsJP(ProgramStartAddress + 12) >>) : s \in {0, 1, 2, 3} }

LoadDriver == CanLoad /\ \E b \in DriverPrograms : DoLoad(b)

RunLoop == RunTick \/ RunBody

NextDriver == LoadDriver \/ StartRun \/ RunLoop \/ CloseWindow

SpecDriver == Init /\ [][NextDriver]_vars

\* The loop of Run has run a Step and has not been left.
InLoopAfterStep == emu.at \in {"tick", "body"} /\ Len(trace) > 0 /\ cpu.panic = ""

\* C33: whenever the loop of Run stands between two iterations and a Step
\* has run, the beeping flag is set iff the Sound bit is set in the mask
\* the most recent Step returned, whether the tone was on or off before.
C33_Beeping ==
  InLoopAfterStep => (emu.beeping <=> HasBit(info, Sound))

\* Two Steps in a row with the sound timer running: the second Start finds
\* the tone on.
C33_Witness ==
  /\ InLoopAfterStep
  /\ Len(trace) = 3
  /\ trace[2][2] = InsSetSound(0)
  /\ cpu.sound = 1
  /\ HasBit(info, Sound)
  /\ emu.beeping

(***************************************************************************)
(* C34.  The back-buffer, on the runs of C33.                              *)
(***************************************************************************)
\* The loop of Run stands between two iterations.
BetweenIterations == emu.at \in {"tick", "body"} /\ cpu.panic = ""

\* Pixel (i mod 64, i div 64) of the back-buffer is lit iff cell i is 1.
BufferFresh ==
  \A i \in Cells : (emu.buffer[<< i % Width, i \div Width >>] = "green") <=> (cpu.display[i] = 1)

\* C34: the back-buffer is written only in an iteration of the loop of Run
\* whose Step returned a mask with Redraw set, and whenever the loop stands
\* between two iterations, pixel (i mod 64, i div 64) of the back-buffer is
\* lit iff framebuffer cell i is 1, for every cell i.
C34_BackBuffer ==
  /\ [](BetweenIterations => BufferFresh)
  /\ [][emu'.buffer # emu.buffer =>
          (StepTaken /\ emu.at = "body" /\ HasBit(info', Redraw))]_vars

\* After the Step that follows the draw: the two rows of the glyph are on
\* the back-buffer, though this iteration copied nothing.
C34_Witness ==
  /\ BetweenIterations
  /\ Len(trace) = 5
  /\ LastOp = InsLD(2, 0)
  /\ ~HasBit(info, Redraw)
  /\ cpu.display[67] = 1
  /\ cpu.display[65] = 0
  /\ emu.buffer[<< 3, 1 >>] = "green"
  /\ emu.buffer[<< 1, 1 >>] = "black"
  /\ emu.buffer[<< 0, 0 >>] = "green"

(***************************************************************************)
(* C35.  The addresses the instructions touch.  Programs                   *)
(*   LD V0,v; LD I,addr; ADD I,V0; <draw, BCD, store or load>              *)
(* with I set at and near the top of memory.                               *)
(***************************************************************************)
FaultAddresses == { 768, MemorySize - 3, MemorySize - 2, MemorySize - 1 }

FaultOps == { InsDRW(1, 1, 2), InsBCD(0), InsStore(1), InsRestore(1) }

FaultPrograms ==
  { Asm(<< InsLD(0, t[1]), InsLDI(t[2]), InsAddI(0), t[3] >>) :
      t \in {0, 1, 255} \X FaultAddresses \X FaultOps }

LoadFault == CanLoad /\ \E b \in FaultPrograms : DoLoad(b)

NextFault == LoadFault \/ DoStep(FALSE)

SpecFault == Init /\ [][NextFault]_vars

TouchesMemory(op) == IsDraw(op) \/ IsBcd(op) \/ IsStore(op) \/ IsRestore(op)

\* C35: no Step that executes draw-sprite, BCD, store-registers or
\* load-registers indexes memory outside 0..0xFFF, whatever value set-index
\* and index-add have given I.
C35_NoMemoryFault ==
  [][(StepTaken /\ Fetched /\ TouchesMemory(Op)) => cpu'.panic # IndexPanic]_vars

\* What does hold: the Step faults exactly when the last address of the
\* instruction is above 0xFFF.
C35_FaultsAboveTop ==
  [][(StepTaken /\ Fetched /\ TouchesMemory(Op)) =>
       LET last == cpu.i + (IF IsBcd(Op) THEN 2 ELSE 1)
       IN  (cpu'.panic = IndexPanic) <=> (last >= MemorySize)]_vars

(***************************************************************************)
(* C36.  The operands of the register-ALU instructions, on the runs of     *)
(* SpecALU.                                                                *)
(***************************************************************************)
\* The result of sub-opcode n on the operand bytes a (Vx) and b (Vy).
AluResult(n, a, b) ==
  CASE n = 1 -> BitOr(a, b)
    [] n = 2 -> BitAnd(a, b)
    [] n = 3 -> BitXor(a, b)
    [] n = 4 -> (a + b) % U8
    [] n = 5 -> (a - b) % U8
    [] n = 7 -> (b - a) % U8

\* C36: a Step that executes OR, AND, XOR, ADD, SUB or SUBN leaves in Vx the
\* result computed from the values Vx and Vy held before the Step, for
\* every y, 0xF included.
C36_OperandsBefore ==
  [][(Ran /\ OpKind(Op) = 8 /\ OpN(Op) \in {1, 2, 3, 4, 5, 7} /\ OpX(Op) # CarryFlag) =>
       cpu'.v[OpX(Op)] = AluResult(OpN(Op), cpu.v[OpX(Op)], cpu.v[OpY(Op)])]_vars

\* What does hold: with y = 0xF the result is computed from Vx and the flag
\* the instruction has just written, except in ADD, which adds first.
C36_FlagAsOperand ==
  [][(Ran /\ OpKind(Op) = 8 /\ OpN(Op) \in {1, 2, 3, 4, 5, 7} /\ OpX(Op) # CarryFlag) =>
       LET a == cpu.v[OpX(Op)]
           b == IF OpY(Op) # CarryFlag \/ OpN(Op) = 4 THEN cpu.v[OpY(Op)]
                ELSE IF OpN(Op) \in {1, 2, 3} THEN 0
                ELSE IF OpN(Op) = 5 \/ a = 0 THEN 1
                ELSE 0
       IN  cpu'.v[OpX(Op)] = AluResult(OpN(Op), a, b)]_vars

(***************************************************************************)
(* C37.  The words the disassembler and the executor accept.  One-word     *)
(* programs run by the driver: every low byte under the kinds that decode  *)
(* it (0, 8, E, F), a sample of operands under the others.                 *)
(***************************************************************************)
DecodedKinds == {0, 8, 14, 15}

DriverWords ==
  { t[1] * 4096 + t[2] * 256 + t[3] : t \in DecodedKinds \X {0, 1, 15} \X (0..(U8 - 1)) }
    \cup
  { t[1] * 4096 + t[2] * 256 + t[3] :
      t \in ((0..15) \ DecodedKinds) \X {0, 15} \X (ByteSample \cup {1, 224, 238}) }

LoadWord == CanLoad /\ \E w \in DriverWords : DoLoad(Asm(<< w >>))

NextWord == LoadWord \/ StartRun \/ RunLoop

SpecWord == Init /\ [][NextWord]_vars

\* The iteration of the loop of Run that has fetched a whole word.
BodyTaken == emu.at = "body" /\ emu'.at = "tick" /\ Fetched

\* C37: in every iteration of the loop of Run, String is fatal on the
\* fetched word iff Execute rejects that word as unknown, and with the same
\* message; so an iteration that ends in the disassembly, before Step, is
\* one whose Step would have been fatal.
C37_SameWords ==
  [][BodyTaken =>
       LET e == Execute([cpu EXCEPT !.pc = (cpu.pc + 2) % U16], Op, 0, 0)[1]
           rejected == IF e.panic \in DecodeErrors THEN e.panic ELSE ""
       IN  /\ OpcodeString(Op)[1] = rejected
           /\ (steps' = steps) <=> (rejected # "")
           /\ (steps' = steps) => cpu'.panic = rejected]_vars

\* The word 0x8018 (sub-opcode 8 of the ALU group): the iteration ended in
\* the disassembly.
C37_Witness ==
  /\ image = Asm(<< 32792 >>)
  /\ emu.at = "tick"
  /\ steps = 0
  /\ cpu.pc = ProgramStartAddress
  /\ cpu.panic = "unknown 0x8 opcode"

(***************************************************************************)
(* C38.  Store, then load.  Programs that fill V0..VF, set I, store        *)
(* V0..Vx, overwrite V0..VF and load V0..Vx, for every x.                  *)
(***************************************************************************)
FillValue(r) == (17 * r + 1) % U8

ClobberRegisters == [r \in 1..RegisterCount |-> InsLD(r - 1, 90)]

RoundTripAddresses == { 768, MemorySize - 16, MemorySize - 8 }

RoundTripPrograms ==
  { Asm(FillRegisters \o << InsLDI(t[1]), InsStore(t[2]) >> \o ClobberRegisters
          \o << InsRestore(t[2]) >>) :
      t \in RoundTripAddresses \X (0..(RegisterCount - 1)) }

LoadRoundTrip == CanLoad /\ \E b \in RoundTripPrograms : DoLoad(b)

NextRoundTrip == LoadRoundTrip \/ DoStep(FALSE)

SpecRoundTrip == Init /\ [][NextRoundTrip]_vars

\* The run has executed Fx55 with this x.
StoredBefore(x) == \E j \in 1..Len(trace) : trace[j][2] = InsStore(x)

\* C38: a Step that executes Fx55 or Fx65 with I + x <= 0xFFF returns and
\* leaves I as it was; and when the run stored V0..Vx at I before, and has
\* moved neither I nor those bytes since, the Fx65 leaves every one of
\* V0..Vx at the value it had when it was stored.
C38_RoundTrip ==
  [][(StepTaken /\ Fetched /\ (IsStore(Op) \/ IsRestore(Op)) /\ cpu.i + OpX(Op) <= 4095) =>
       /\ cpu'.panic = ""
       /\ cpu'.i = cpu.i
       /\ (IsRestore(Op) /\ StoredBefore(OpX(Op))) =>
            \A r \in 0..OpX(Op) : cpu'.v[r] = FillValue(r)]_vars

\* Stored and loaded V0..VF at 0xFF0, the last sixteen bytes of memory.
C38_Witness ==
  /\ Stepped
  /\ LastOp = InsRestore(15)
  /\ cpu.i = 4080
  /\ cpu.v[0] = 1
  /\ cpu.v[14] = 239
  /\ cpu.v[15] = 0
  /\ cpu.memory[4094] = 239

(***************************************************************************)
(* C39.  Pause and single step.  A program that sets the delay timer and   *)
(* counts in V1, with the toolbar and the P and N keys used while the loop *)
(* of Run runs.  The run counts, from the moment a pause begins, the step  *)
(* requests made and the Steps run by iterations that found the pause     *)
(* (each up to 2).                                                         *)
(***************************************************************************)
PausePrograms ==
  { Asm(<< InsLD(0, d), InsSetDelay(0), InsALU(1, 0, 4), InsJP(ProgramStartAddress + 4) >>) :
      d \in {1, 2} }

LoadPause == CanLoad /\ \E b \in PausePrograms : DoLoad(b)

WindowThread == ToolbarPause \/ ToolbarPlay \/ KeyP \/ RequestNext

ExecutionLoop == RunTick \/ RunGate \/ RunClear \/ RunBody

NextPause == LoadPause \/ StartRun \/ ExecutionLoop \/ WindowThread

SpecPause == Init /\ [][NextPause]_vars

\* C39: while the emulator is paused, the Steps run since the pause began
\* by iterations that found it are never more than the step requests made
\* since it began; and while it is paused with no request pending and no
\* iteration past the pause test, no transition changes the processor or
\* its timers.
C39_PausedSteps ==
  /\ [](emu.paused => emu.ran <= emu.asked)
  /\ [][(emu.paused /\ ~emu.next /\ emu.at \in {"tick", "gate"}) => cpu' = cpu]_vars

(***************************************************************************)
(* C40.  The key found by a key-wait Step whose 16 flag loads interleave   *)
(* with SetKey calls (the runs of SpecScan: keys 3 and 15 pressed and      *)
(* released between any two loads).                                        *)
(***************************************************************************)
\* The transition is the flag load that ends a key-wait Step with a key
\* found: the flag at the scan index is set when it is loaded.
KeyWaitFinds ==
  /\ scan.active
  /\ ~scan'.active
  /\ steps' = steps + 1
  /\ cpu.keyState[scan.i]

\* C40: a key-wait Step that completes stores in Vx the index of a key whose
\* flag it loaded as set, and that index is the lowest-indexed key set at
\* the moment the scan finishes (the load that ends it).
C40_LowestAtFinish ==
  [][KeyWaitFinds =>
       /\ cpu'.v[OpX(scan.op)] = scan.i
       /\ cpu'.v[OpX(scan.op)] = LowestKey(cpu)]_vars

\* What the scan does give: the index stored is that of a flag the Step
\* loaded as set, no flag it loaded before that one was set when loaded
\* (the scan would have ended there), and PC is past the instruction.
C40_ObservedSet ==
  [][KeyWaitFinds =>
       /\ cpu'.v[OpX(scan.op)] = scan.i
       /\ cpu'.keyState = cpu.keyState
       /\ cpu'.pc = cpu.pc]_vars

\* A key-wait has completed with key 15 while key 3, pressed behind the
\* scan, is held.
C40_Witness ==
  /\ ~scan.active
  /\ steps >= 2
  /\ IsKeyWait(LastOp)
  /\ cpu.pc = (LastPc + 2) % U16
  /\ cpu.v[OpX(LastOp)] = 15
  /\ cpu.keyState[3]
  /\ cpu.keyState[15]

=============================================================================
